---- MODULE Spec2Model ----
(***************************************************************************)
(* A model of the recalls platform's question-answering core:              *)
(*   - the openFDA client (src/third_party/openfda/client.py),             *)
(*   - the two tool handlers (src/ask/tools.py),                           *)
(*   - the conversation loop, its intent-correction layer and its          *)
(*     fallback rules (src/ask/services.py).                               *)
(* Text is modelled by TLA+ strings, on which TLC evaluates Len, SubSeq,   *)
(* Head, Tail and \o; a character is a string of length one.               *)
(***************************************************************************)
EXTENDS Integers, Sequences, FiniteSets, TLC

(***************************************************************************)
(* Bounds of the model (not program constants).                            *)
(***************************************************************************)
\* largest total the remote API reports in a response's metadata
MaxTotal == 2
\* largest number of records the remote API returns in one response
MaxRes == 1
\* largest number of tool-call intents in one model turn
MaxCalls == 2
\* largest number of buckets the recalling_firm facet count returns
MaxBuckets == 3
\* number of most recent years whose searches vary one by one, and from which
\* startYear and endYear are drawn
MaxSpan == 3

(***************************************************************************)
(* Python string operations, as the code uses them.                        *)
(***************************************************************************)
Min(a, b) == IF a < b THEN a ELSE b

Max(a, b) == IF a > b THEN a ELSE b

UpperChars == "ABCDEFGHIJKLMNOPQRSTUVWXYZ"

LowerChars == "abcdefghijklmnopqrstuvwxyz"

Digits == "0123456789"

CharAt(s, i) == SubSeq(s, i, i)

\* c.lower() for one character
LowerChar(c) ==
    IF \E i \in 1..Len(UpperChars) : CharAt(UpperChars, i) = c
    THEN CharAt(LowerChars, CHOOSE i \in 1..Len(UpperChars) : CharAt(UpperChars, i) = c)
    ELSE c

RECURSIVE lower(_)
\* s.lower()
lower(s) == IF s = "" THEN "" ELSE LowerChar(Head(s)) \o lower(Tail(s))

StartsAt(s, sub, i) ==
    /\ i >= 1
    /\ i + Len(sub) - 1 <= Len(s)
    /\ SubSeq(s, i, i + Len(sub) - 1) = sub

\* sub in s
Contains(s, sub) == \E i \in 1..(Len(s) - Len(sub) + 1) : StartsAt(s, sub, i)

\* s.find(sub) + 1, for a sub that occurs in s
FirstIndex(s, sub) ==
    CHOOSE i \in 1..(Len(s) - Len(sub) + 1) :
        /\ StartsAt(s, sub, i)
        /\ \A j \in 1..(i - 1) : ~StartsAt(s, sub, j)

\* s.split(sub, 1)[1], for a sub that occurs in s
AfterFirst(s, sub) == SubSeq(s, FirstIndex(s, sub) + Len(sub), Len(s))

IsSpace(c) == c \in {" ", "\t", "\n"}

RECURSIVE lstripSet(_, _)
lstripSet(s, cs) ==
    IF s # "" /\ Head(s) \in cs THEN lstripSet(Tail(s), cs) ELSE s

RECURSIVE rstripSet(_, _)
rstripSet(s, cs) ==
    IF s # "" /\ CharAt(s, Len(s)) \in cs
    THEN rstripSet(SubSeq(s, 1, Len(s) - 1), cs)
    ELSE s

\* s.strip(chars)
stripSet(s, cs) == rstripSet(lstripSet(s, cs), cs)

\* s.strip()
strip(s) == stripSet(s, {" ", "\t", "\n"})

\* s.rstrip('s')
rstrip_s(s) == rstripSet(s, {"s"})

\* s.strip('"\'')
stripQuotes(s) == stripSet(s, {"\"", "'"})

RECURSIVE firstToken(_)
\* the longest prefix of s without whitespace
firstToken(s) ==
    IF s = "" \/ IsSpace(Head(s)) THEN "" ELSE Head(s) \o firstToken(Tail(s))

RECURSIVE split(_)
\* s.split(): the maximal whitespace-free runs of s, in order
split(s) ==
    LET t == lstripSet(s, {" ", "\t", "\n"}) IN
    IF t = "" THEN << >>
    ELSE LET w == firstToken(t) IN << w >> \o split(SubSeq(t, Len(w) + 1, Len(t)))

RECURSIVE join(_)
\* " ".join(tokens)
join(tokens) ==
    IF tokens = << >> THEN ""
    ELSE IF Len(tokens) = 1 THEN tokens[1]
    ELSE tokens[1] \o " " \o join(Tail(tokens))

IsDigitChar(c) == \E i \in 1..Len(Digits) : CharAt(Digits, i) = c

\* tok.isdigit()
isdigit(tok) == tok # "" /\ \A i \in 1..Len(tok) : IsDigitChar(CharAt(tok, i))

DigitVal(c) == (CHOOSE i \in 1..Len(Digits) : CharAt(Digits, i) = c) - 1

RECURSIVE int(_)
\* int(tok), for a tok of decimal digits
int(tok) ==
    IF tok = "" THEN 0
    ELSE 10 * int(SubSeq(tok, 1, Len(tok) - 1)) + DigitVal(CharAt(tok, Len(tok)))

RECURSIVE str(_)
\* str(n), for n >= 0
str(n) ==
    IF n < 10 THEN CharAt(Digits, n + 1)
    ELSE str(n \div 10) \o CharAt(Digits, (n % 10) + 1)

\* [t for t in tokens if t not in stop]
RECURSIVE dropTokens(_, _)
dropTokens(tokens, stop) ==
    IF tokens = << >> THEN << >>
    ELSE IF tokens[1] \in stop THEN dropTokens(Tail(tokens), stop)
    ELSE << tokens[1] >> \o dropTokens(Tail(tokens), stop)

(***************************************************************************)
(* Python dictionaries: a function whose DOMAIN is the set of keys.        *)
(***************************************************************************)
\* d.get(k, default)
Get(d, k, default) == IF k \in DOMAIN d THEN d[k] ELSE default

\* the empty dictionary
EmptyDict == [k \in {} |-> 0]

\* d with d[k] = v
Put(d, k, v) == [x \in (DOMAIN d) \cup {k} |-> IF x = k THEN v ELSE d[x]]

(***************************************************************************)
(* Dynamically typed argument values.  A tool-call argument that the code  *)
(* coerces with int() or tests with isinstance is a tagged value; text     *)
(* arguments are strings, and a missing text argument or None is "" (the   *)
(* code only tests their truthiness).                                      *)
(***************************************************************************)
IntV(n) == [t |-> "int", v |-> n]

StrV(s) == [t |-> "str", v |-> s]

NoneV == [t |-> "none"]

\* bool(v)
Truthy(v) ==
    CASE v.t = "int" -> v.v # 0
      [] v.t = "str" -> v.v # ""
      [] OTHER -> FALSE

\* int(v): [ok |-> FALSE] stands for the TypeError or ValueError int() raises
ToInt(v) ==
    CASE v.t = "int" -> [ok |-> TRUE, v |-> v.v]
      [] v.t = "str" ->
            LET parse(s) ==
                    IF isdigit(s) THEN [ok |-> TRUE, v |-> int(s)]
                    ELSE IF s # "" /\ Head(s) = "-" /\ isdigit(Tail(s))
                         THEN [ok |-> TRUE, v |-> 0 - int(Tail(s))]
                    ELSE [ok |-> FALSE, v |-> 0]
            IN  parse(strip(v.v))
      [] OTHER -> [ok |-> FALSE, v |-> 0]

\* the absent payload (Python's None)
None == [None |-> TRUE]

(***************************************************************************)
(* The remote API.  An outcome is what one HTTP GET produces: a failure    *)
(* (non-success status or transport error, raised by raise_for_status) or  *)
(* the parsed JSON body.                                                   *)
(***************************************************************************)
\* the i-th raw enforcement record of the remote data set
RawRecord(i) ==
    [recall_number |-> "D-" \o str(i), recalling_firm |-> "ACME",
     classification |-> "Class II", recall_initiation_date |-> "20240101"]

RawResults(k) == [i \in 1..k |-> RawRecord(i)]

HttpFailure == [ok |-> FALSE]

SearchBody(total, k) ==
    [ok |-> TRUE, results |-> RawResults(k), meta |-> [results |-> [total |-> total]]]

CountBody(buckets) == [ok |-> TRUE, results |-> buckets]

(***************************************************************************)
(* OpenFDAClient                                                           *)
(***************************************************************************)
\* OpenFDAClient._compose_search
compose_search(query, classification) ==
    LET t1 == IF classification # ""
              THEN << "classification:\"" \o classification \o "\"" >> ELSE << >>
        t2 == IF query # "" THEN << query >> ELSE << >>
        terms == t1 \o t2
    IN  IF terms = << >> THEN ""
        ELSE IF Len(terms) = 1 THEN terms[1]
        ELSE terms[1] \o " AND " \o terms[2]

\* query parameters that carry the limit and the skip as given
search_params_unclamped(query, classification, limit, skip, sort) ==
    LET with_sort(p1) == IF sort # "" THEN Put(p1, "sort", sort) ELSE p1
        with_search(p0, search) ==
            with_sort(IF search # "" THEN Put(p0, "search", search) ELSE p0)
    IN  with_search([limit |-> limit, skip |-> skip],
                    compose_search(query, classification))

\* the query parameters OpenFDAClient.search_enforcements sends
search_params(query, classification, limit, skip, sort) ==
    LET with_sort(p1) == IF sort # "" THEN Put(p1, "sort", sort) ELSE p1
        with_search(p0, search) ==
            with_sort(IF search # "" THEN Put(p0, "search", search) ELSE p0)
    IN  with_search([limit |-> Max(1, Min(limit, 100)), skip |-> Max(0, skip)],
                    compose_search(query, classification))

\* OpenFDAClient.search_enforcements, the GET having the outcome out
search_enforcements(query, classification, limit, skip, sort, out) ==
    [raised |-> ~out.ok,
     data |-> out,
     request |-> search_params(query, classification, limit, skip, sort)]

\* the query parameters OpenFDAClient.count_buckets sends
count_params(field, search) ==
    LET p0 == [count |-> field \o ".exact"]
    IN  IF search # "" THEN Put(p0, "search", search) ELSE p0

\* OpenFDAClient.count_buckets, the GET having the outcome out
count_buckets(field, search, out) ==
    [raised |-> ~out.ok,
     buckets |-> IF out.ok THEN out.results ELSE << >>,
     request |-> count_params(field, search)]

(***************************************************************************)
(* transforms.normalize_recall                                             *)
(***************************************************************************)
normalize_recall(record) ==
    [id |-> Get(record, "recall_number", ""),
     classification |-> Get(record, "classification", ""),
     productName |-> Get(record, "product_description", ""),
     firmName |-> Get(record, "firm_name", Get(record, "recalling_firm", "")),
     status |-> Get(record, "status", ""),
     recallInitiationDate |-> Get(record, "recall_initiation_date", ""),
     state |-> Get(record, "state", ""),
     reasonForRecall |-> Get(record, "reason_for_recall", ""),
     city |-> Get(record, "city", "")]

(***************************************************************************)
(* search_recalls_handler                                                  *)
(***************************************************************************)
\* a handler's outcome: it raised, or it returned payload; calls are the
\* requests it sent to the remote API, in order, and failed names the kind of
\* each request that failed ("search", "count", or "year" for a per-year search)
Raised(calls, failed) ==
    [raised |-> TRUE, payload |-> None, calls |-> calls, failed |-> failed]

Returned(payload, calls, failed) ==
    [raised |-> FALSE, payload |-> payload, calls |-> calls, failed |-> failed]

\* a limit that is coerced but not clamped
handler_limit_unclamped(args) ==
    LET coerce(c) == IF c.ok THEN c.v ELSE 10
    IN  coerce(ToInt(Get(args, "limit", IntV(10))))

\* lines 19-28: the limit the handler passes to the client
handler_limit(args) ==
    LET at_most(limit) == IF limit > 50 THEN 50 ELSE limit
        at_least(limit) == at_most(IF limit < 1 THEN 1 ELSE limit)
        coerce(c) == at_least(IF c.ok THEN c.v ELSE 10)
    IN  coerce(ToInt(Get(args, "limit", IntV(10))))

\* lines 9-16: the query the handler passes to the client
handler_query(args) ==
    LET query == Get(args, "query", "")
        compose(firm, firm_clause) ==
            IF firm # ""
            THEN IF query # "" THEN "(" \o query \o ") AND " \o firm_clause
                 ELSE firm_clause
            ELSE query
        with_firm(firm) == compose(firm, "recalling_firm:\"" \o firm \o "\"")
    IN  with_firm(strip(Get(args, "firm", "")))

\* lines 35-39: the projection on the listed fields
project(item, fields) == [k \in (DOMAIN item) \cap fields |-> item[k]]

search_recalls_handler(args, out) ==
    LET rawskip == Get(args, "skip", IntV(0))
        fields == Get(args, "fields", {})
        \* lines 33-40: the payload of the response r
        respond(r) ==
            IF r.raised THEN Raised(<< r.request >>, << "search" >>)
            ELSE Returned(
                    [recalls |->
                        [i \in 1..Len(r.data.results) |->
                            IF fields # {}
                            THEN project(normalize_recall(r.data.results[i]), fields)
                            ELSE normalize_recall(r.data.results[i])],
                     meta |-> r.data.meta],
                    << r.request >>, << >>)
        \* lines 29-32: the search with the coerced skip
        search(skip) ==
            IF ~skip.ok THEN Raised(<< >>, << >>)
            ELSE respond(search_enforcements(
                            handler_query(args), Get(args, "classification", ""),
                            handler_limit(args), skip.v, Get(args, "sort", ""), out))
    IN  search(ToInt(IF Truthy(rawskip) THEN rawskip ELSE IntV(0)))

(***************************************************************************)
(* get_recall_stats_handler.  env gives the outcome of each remote call    *)
(* the handler can make: env.s1 the firm-total search, env.cf the          *)
(* classification facet, env.ff the recalling_firm facet, env.yr[y] the    *)
(* search of year y.  The handler is a sequence of four blocks; st is the  *)
(* handler's progress: the result built so far, the requests sent, and     *)
(* whether it has raised or returned.                                      *)
(***************************************************************************)
\* the wall-clock year (datetime.utcnow().year)
ThisYear == 2024

\* lines 44-46
stats_requested(args) == Get(args, "stats", << >>)

\* m in stats_requested
requested(args, m) ==
    \E i \in 1..Len(stats_requested(args)) : stats_requested(args)[i] = m

include_total(args) == requested(args, "total")

include_class(args) == requested(args, "byClassification")

include_top_firms(args) == requested(args, "topFirms")

include_bottom_firms(args) == requested(args, "bottomFirms")

include_by_year(args) ==
    requested(args, "byYear") \/ requested(args, "mostYear") \/ requested(args, "leastYear")

include_firm_total(args) == requested(args, "firmTotal")

classification_filter(args) == strip(Get(args, "classification", ""))

StatsStart ==
    [raised |-> FALSE, done |-> FALSE, result |-> EmptyDict, calls |-> << >>,
     failed |-> << >>]

\* int(((meta.get("results") or {}).get("total")) or 0)
meta_total(data) == data.meta.results.total

\* a firm total that leaves the classification filter out of its query
stats_firm_total_no_class(args, env, st) ==
    IF st.raised \/ st.done \/ ~include_firm_total(args) THEN st
    ELSE
    LET after(firm, r) ==
            IF r.raised
            THEN [st EXCEPT !.raised = TRUE, !.calls = Append(st.calls, r.request),
                            !.failed = Append(st.failed, "search")]
            ELSE [st EXCEPT
                    !.calls = Append(st.calls, r.request),
                    !.result = Put(Put(st.result, "firmTotal", meta_total(r.data)),
                                   "firm", firm),
                    !.done = ({stats_requested(args)[i] :
                                    i \in 1..Len(stats_requested(args))} = {"firmTotal"})]
        count(firm) ==
            IF firm = "" THEN [st EXCEPT !.result = Put(st.result, "firmTotal", 0)]
            ELSE after(firm,
                       search_enforcements("recalling_firm:\"" \o firm \o "\"",
                                           "", 1, 0, "", env.s1))
    IN  count(strip(Get(args, "firm", "")))

\* lines 57-74: firmTotal
stats_firm_total(args, env, st) ==
    IF st.raised \/ st.done \/ ~include_firm_total(args) THEN st
    ELSE
    LET query(p1) ==
            IF classification_filter(args) # ""
            THEN p1 \o " AND " \o "classification:\"" \o classification_filter(args) \o "\""
            ELSE p1
        after(firm, r) ==
            IF r.raised
            THEN [st EXCEPT !.raised = TRUE, !.calls = Append(st.calls, r.request),
                            !.failed = Append(st.failed, "search")]
            ELSE [st EXCEPT
                    !.calls = Append(st.calls, r.request),
                    !.result = Put(Put(st.result, "firmTotal", meta_total(r.data)),
                                   "firm", firm),
                    !.done = ({stats_requested(args)[i] :
                                    i \in 1..Len(stats_requested(args))} = {"firmTotal"})]
        count(firm) ==
            IF firm = "" THEN [st EXCEPT !.result = Put(st.result, "firmTotal", 0)]
            ELSE after(firm,
                       search_enforcements(query("recalling_firm:\"" \o firm \o "\""),
                                           "", 1, 0, "", env.s1))
    IN  count(strip(Get(args, "firm", "")))

\* b.get("term", "") or "Unknown"
bucket_term(b) == IF b.term = "" THEN "Unknown" ELSE b.term

RECURSIVE by_classification(_)
\* line 80: the dictionary built from the buckets; a later bucket of the same
\* term replaces an earlier one
by_classification(buckets) ==
    IF buckets = << >> THEN EmptyDict
    ELSE LET n == Len(buckets) IN
         Put(by_classification(SubSeq(buckets, 1, n - 1)),
             bucket_term(buckets[n]), buckets[n].count)

RECURSIVE sum_values(_, _)
\* sum(d.values()), over the keys ks of d
sum_values(d, ks) ==
    IF ks = {} THEN 0
    ELSE LET k == CHOOSE k \in ks : TRUE IN d[k] + sum_values(d, ks \ {k})

\* a classification step that fetches the facet whatever is requested
stats_classification_eager(args, env, st) ==
    IF st.raised \/ st.done THEN st
    ELSE
    LET with_total(r1, byc) ==
            IF include_total(args)
            THEN Put(r1, "totalRecalls", sum_values(byc, DOMAIN byc)) ELSE r1
        with_by_class(byc) ==
            with_total(IF include_class(args)
                       THEN Put(st.result, "recallsByClassification", byc)
                       ELSE st.result,
                       byc)
        after(r) ==
            IF r.raised
            THEN [st EXCEPT !.raised = TRUE, !.calls = Append(st.calls, r.request),
                            !.failed = Append(st.failed, "count")]
            ELSE [st EXCEPT !.calls = Append(st.calls, r.request),
                            !.result = with_by_class(by_classification(r.buckets))]
    IN  after(count_buckets("classification", "", env.cf))

\* lines 76-84: byClassification and/or total
stats_classification(args, env, st) ==
    IF st.raised \/ st.done \/ ~(include_class(args) \/ include_total(args)) THEN st
    ELSE
    LET with_total(r1, byc) ==
            IF include_total(args)
            THEN Put(r1, "totalRecalls", sum_values(byc, DOMAIN byc)) ELSE r1
        with_by_class(byc) ==
            with_total(IF include_class(args)
                       THEN Put(st.result, "recallsByClassification", byc)
                       ELSE st.result,
                       byc)
        after(r) ==
            IF r.raised
            THEN [st EXCEPT !.raised = TRUE, !.calls = Append(st.calls, r.request),
                            !.failed = Append(st.failed, "count")]
            ELSE [st EXCEPT !.calls = Append(st.calls, r.request),
                            !.result = with_by_class(by_classification(r.buckets))]
    IN  after(count_buckets("classification", "", env.cf))

\* the {"firm": term, "count": count} entry of a bucket
firm_entry(b) == [firm |-> bucket_term(b), count |-> b.count]

RECURSIVE insert_asc(_, _)
\* e placed after every entry of the ascending list whose count is <= its own
insert_asc(sorted, e) ==
    IF sorted = << >> THEN << e >>
    ELSE IF sorted[Len(sorted)].count <= e.count THEN Append(sorted, e)
    ELSE Append(insert_asc(SubSeq(sorted, 1, Len(sorted) - 1), e), sorted[Len(sorted)])

RECURSIVE sorted_asc(_)
\* lines 106-109: sorted(entries, key=count), a stable ascending sort
sorted_asc(entries) ==
    IF entries = << >> THEN << >>
    ELSE insert_asc(sorted_asc(SubSeq(entries, 1, Len(entries) - 1)), entries[Len(entries)])

RECURSIVE positive(_)
\* a filter that keeps the firms with count 0
positive_all(entries) == entries

\* [b for b in entries if b["count"] > 0]
positive(entries) ==
    IF entries = << >> THEN << >>
    ELSE IF entries[1].count > 0 THEN << entries[1] >> \o positive(Tail(entries))
    ELSE positive(Tail(entries))

\* seq[:n]
take(seq, n) == SubSeq(seq, 1, Min(Max(n, 0), Len(seq)))

\* int(args.get(key, default)): a coercion that keeps 0
int_or_plain(args, key, default) == ToInt(Get(args, key, IntV(default)))

\* int(args.get(key, default) or default)
int_or(args, key, default) ==
    LET coerce(v) == ToInt(IF Truthy(v) THEN v ELSE IntV(default))
    IN  coerce(Get(args, key, IntV(default)))

\* lines 86-111: topFirms and/or bottomFirms
stats_firms(args, env, st) ==
    IF st.raised \/ st.done \/ ~(include_top_firms(args) \/ include_bottom_firms(args))
    THEN st
    ELSE
    LET search_clause == IF classification_filter(args) # ""
                         THEN "classification:\"" \o classification_filter(args) \o "\""
                         ELSE ""
        \* lines 105-111
        with_bottom(r1, entries, bottom_limit) ==
            IF include_bottom_firms(args)
            THEN Put(r1, "bottomFirms", take(positive(sorted_asc(entries)), bottom_limit))
            ELSE r1
        \* lines 97-103
        with_top(entries, limit, bottom_limit) ==
            with_bottom(IF include_top_firms(args)
                        THEN Put(st.result, "topFirms", take(entries, limit))
                        ELSE st.result,
                        entries, bottom_limit)
        \* line 95
        after(r, limit, bottom_limit) ==
            IF r.raised
            THEN [st EXCEPT !.raised = TRUE, !.calls = Append(st.calls, r.request),
                            !.failed = Append(st.failed, "count")]
            ELSE [st EXCEPT
                    !.calls = Append(st.calls, r.request),
                    !.result = with_top([i \in 1..Len(r.buckets) |-> firm_entry(r.buckets[i])],
                                        limit, bottom_limit)]
        \* lines 90-91
        bottom(limit, b0) ==
            IF ~b0.ok THEN [st EXCEPT !.raised = TRUE]
            ELSE after(count_buckets("recalling_firm", search_clause, env.ff),
                       limit, Max(1, Min(b0.v, 10)))
        top(limit) == bottom(limit, int_or(args, "bottomFirmsLimit", limit))
        \* lines 88-89
        limits(l0) ==
            IF ~l0.ok THEN [st EXCEPT !.raised = TRUE] ELSE top(Max(1, Min(l0.v, 10)))
    IN  limits(int_or(args, "topFirmsLimit", 5))

\* isinstance(v, int)
is_int(v) == v.t = "int"

\* a range that is always the last five years
year_range_last_five(args) == [start |-> ThisYear - 4, end |-> ThisYear]

\* lines 115-120: the first and last year queried
year_range(args) ==
    LET range(start_year, end_year) ==
            IF ~is_int(start_year) \/ ~is_int(end_year) \/ start_year.v > end_year.v
            THEN [start |-> ThisYear - 9, end |-> ThisYear]
            ELSE [start |-> start_year.v, end |-> end_year.v]
    IN  range(Get(args, "startYear", NoneV), Get(args, "endYear", NoneV))

\* the query of one year
year_query(year) ==
    "recall_initiation_date:[" \o str(year) \o "0101 TO " \o str(year) \o "1231]"

\* a step that records a failed year with the count 1
year_step_failed_as_one(year, yr) ==
    LET step(r) ==
            [item |-> [year |-> str(year),
                       count |-> IF r.raised THEN 1 ELSE meta_total(r.data)],
             call |-> r.request,
             raised |-> r.raised]
    IN  step(search_enforcements(year_query(year), "", 1, 0, "", yr[year]))

\* lines 123-130: the search of one year and the count it gives, 0 when the
\* search fails
year_step(year, yr) ==
    LET step(r) ==
            [item |-> [year |-> str(year),
                       count |-> IF r.raised THEN 0 ELSE meta_total(r.data)],
             call |-> r.request,
             raised |-> r.raised]
    IN  step(search_enforcements(year_query(year), "", 1, 0, "", yr[year]))

\* lines 121-130: the loop over range(year, end + 1); yr gives each search's
\* outcome.  The years are kept as the list of (year, count) in insertion order.
year_loop(year, end, yr) ==
    LET collect(steps) ==
            [items |-> [i \in DOMAIN steps |-> steps[i].item],
             calls |-> [i \in DOMAIN steps |-> steps[i].call],
             failed |-> [i \in 1..Cardinality({ j \in DOMAIN steps : steps[j].raised })
                            |-> "year"]]
    IN  collect([i \in 1..(end - year + 1) |-> year_step(year + i - 1, yr)])

\* the dictionary recalls_by_year of the listed items
year_dict(items) ==
    [k \in {items[i].year : i \in 1..Len(items)} |->
        (items[CHOOSE i \in 1..Len(items) : items[i].year = k]).count]

\* max(items, key=count): the first item with the largest count
most_year(items) ==
    items[CHOOSE i \in 1..Len(items) :
            /\ \A j \in 1..Len(items) : items[j].count <= items[i].count
            /\ \A j \in 1..(i - 1) : items[j].count < items[i].count]

\* the last item with the smallest count
least_year_last(items) ==
    items[CHOOSE i \in 1..Len(items) :
            /\ \A j \in 1..Len(items) : items[j].count >= items[i].count
            /\ \A j \in (i + 1)..Len(items) : items[j].count > items[i].count]

\* min(items, key=count): the first item with the smallest count
least_year(items) ==
    items[CHOOSE i \in 1..Len(items) :
            /\ \A j \in 1..Len(items) : items[j].count >= items[i].count
            /\ \A j \in 1..(i - 1) : items[j].count > items[i].count]

\* byYear / mostYear / leastYear with the per-year mapping in every result
stats_years_with_mapping(args, env, st) ==
    IF st.raised \/ st.done \/ ~include_by_year(args) THEN st
    ELSE
    LET with_least(r2, items) ==
            IF requested(args, "leastYear") /\ items # << >>
            THEN Put(r2, "leastYear", least_year(items)) ELSE r2
        with_most(r1, items) ==
            with_least(IF requested(args, "mostYear") /\ items # << >>
                       THEN Put(r1, "mostYear", most_year(items)) ELSE r1,
                       items)
        with_by_year(items) ==
            with_most(Put(st.result, "recallsByYear", year_dict(items)), items)
        after(loop) ==
            [st EXCEPT !.calls = st.calls \o loop.calls,
                       !.result = with_by_year(loop.items),
                       !.failed = st.failed \o loop.failed]
        over(rng) == after(year_loop(rng.start, rng.end, env.yr))
    IN  over(year_range(args))

\* lines 113-138: byYear / mostYear / leastYear
stats_years(args, env, st) ==
    IF st.raised \/ st.done \/ ~include_by_year(args) THEN st
    ELSE
    LET \* lines 136-138
        with_least(r2, items) ==
            IF requested(args, "leastYear") /\ items # << >>
            THEN Put(r2, "leastYear", least_year(items)) ELSE r2
        \* lines 133-135
        with_most(r1, items) ==
            with_least(IF requested(args, "mostYear") /\ items # << >>
                       THEN Put(r1, "mostYear", most_year(items)) ELSE r1,
                       items)
        \* lines 131-132
        with_by_year(items) ==
            with_most(IF requested(args, "byYear")
                      THEN Put(st.result, "recallsByYear", year_dict(items))
                      ELSE st.result,
                      items)
        after(loop) ==
            [st EXCEPT !.calls = st.calls \o loop.calls,
                       !.result = with_by_year(loop.items),
                       !.failed = st.failed \o loop.failed]
        over(rng) == after(year_loop(rng.start, rng.end, env.yr))
    IN  over(year_range(args))

get_recall_stats_handler(args, env) ==
    LET finish(st) ==
            IF st.raised THEN Raised(st.calls, st.failed)
            ELSE Returned(st.result, st.calls, st.failed)
    IN  finish(stats_years(args, env,
                 stats_firms(args, env,
                   stats_classification(args, env,
                     stats_firm_total(args, env, StatsStart)))))

(***************************************************************************)
(* The intent-correction layer (services.py, lines 69-104).                *)
(***************************************************************************)
\* a proposed or corrected tool call
Call(name, args) == [name |-> name, args |-> args]

\* lines 74-81
class_label(uq) ==
    IF Contains(uq, "classification")
    THEN IF Contains(uq, " 1") \/ Contains(uq, " class 1") \/ Contains(uq, "class i")
         THEN "Class I"
         ELSE IF Contains(uq, " 2") \/ Contains(uq, " class 2") \/ Contains(uq, "class ii")
         THEN "Class II"
         ELSE IF Contains(uq, " 3") \/ Contains(uq, " class 3") \/ Contains(uq, "class iii")
         THEN "Class III"
         ELSE ""
    ELSE ""

StopWords == {"is", "are", "exists", "for", "of", "the"}

\* lines 85-87 (and 148-150, 221-225): the firm name after the first "firm"
extract_firm(uq) ==
    stripQuotes(strip(join(dropTokens(split(strip(AfterFirst(uq, "firm"))), StopWords))))

\* args with the class label, when there is one (lines 91-92 and 97-98)
with_class(args, label) ==
    IF label # "" THEN Put(args, "classification", label) ELSE args

\* a firm-total rewrite that leaves the class label out
firm_total_rewrite_plain(uq, call) ==
    IF call.name = "get_recall_stats" /\ Contains(uq, "how many") /\ Contains(uq, "firm")
    THEN LET rewrite(firm_name) ==
                Call(call.name,
                     [stats |-> << "firmTotal" >>,
                      firm |-> IF firm_name # "" THEN firm_name
                               ELSE Get(call.args, "firm", "")])
         IN  rewrite(extract_firm(uq))
    ELSE call

\* lines 82-92: the firm-total rewrite
firm_total_rewrite(uq, call) ==
    IF call.name = "get_recall_stats" /\ Contains(uq, "how many") /\ Contains(uq, "firm")
    THEN LET rewrite(firm_name) ==
                Call(call.name,
                     with_class([stats |-> << "firmTotal" >>,
                                 firm |-> IF firm_name # "" THEN firm_name
                                          ELSE Get(call.args, "firm", "")],
                                class_label(uq)))
         IN  rewrite(extract_firm(uq))
    ELSE call

\* an override that leaves the class label out
least_override_plain(uq, call) ==
    IF Contains(uq, "least") \/ Contains(uq, "fewest")
    THEN Call("get_recall_stats",
              [stats |-> << "bottomFirms" >>, bottomFirmsLimit |-> IntV(10)])
    ELSE call

\* lines 93-98: the least/fewest override
least_override(uq, call) ==
    IF Contains(uq, "least") \/ Contains(uq, "fewest")
    THEN Call("get_recall_stats",
              with_class([stats |-> << "bottomFirms" >>, bottomFirmsLimit |-> IntV(10)],
                         class_label(uq)))
    ELSE call

\* the elements of a pattern: a literal text, or WS for \s+
WS == [ws |-> TRUE]

Lit(text) == [ws |-> FALSE, text |-> text]

RECURSIVE skip_ws(_, _)
\* the index after the whitespace run that starts at i
skip_ws(s, i) == IF i <= Len(s) /\ IsSpace(CharAt(s, i)) THEN skip_ws(s, i + 1) ELSE i

RECURSIVE match_seq(_, _, _)
\* the index after a match of the pattern pat at index i of s, or 0.  Each \s+
\* of pat is followed by a literal that starts with a letter, so it takes the
\* whole run.
match_seq(s, i, pat) ==
    IF pat = << >> THEN i
    ELSE IF pat[1].ws
         THEN IF skip_ws(s, i) > i THEN match_seq(s, skip_ws(s, i), Tail(pat)) ELSE 0
         ELSE IF StartsAt(s, pat[1].text, i)
              THEN match_seq(s, i + Len(pat[1].text), Tail(pat))
              ELSE 0

\* recalls\s+for\s+firm
PatRecallsForFirm == << Lit("recalls"), WS, Lit("for"), WS, Lit("firm") >>

\* list\s+all\s+recalls\s+for\s+firm
PatListAll == << Lit("list"), WS, Lit("all"), WS >> \o PatRecallsForFirm

\* list\s+recalls\s+for\s+firm
PatList == << Lit("list"), WS >> \o PatRecallsForFirm

\* the index where group 1 of \s+(.+) starts when the text before it ended
\* before index e, or 0: \s+ is greedy and gives back characters until one
\* that is not a newline is left for (.+)
group_start(s, e) ==
    LET ok(g) == /\ g > e
                 /\ g <= Len(s)
                 /\ \A j \in e..(g - 1) : IsSpace(CharAt(s, j))
                 /\ CharAt(s, g) # "\n"
    IN  IF \E g \in (e + 1)..Len(s) : ok(g)
        THEN CHOOSE g \in (e + 1)..Len(s) : ok(g) /\ \A h \in (g + 1)..Len(s) : ~ok(h)
        ELSE 0

RECURSIVE until_newline(_)
\* (.+): the characters up to the next newline
until_newline(s) ==
    IF s = "" \/ Head(s) = "\n" THEN "" ELSE Head(s) \o until_newline(Tail(s))

\* the whole pattern of line 100 tried at index i: the index where group 1
\* starts, or 0
match_at(s, i) ==
    LET group(e) == IF e > 0 THEN group_start(s, e) ELSE 0
        first(g1, g2, g3) == IF g1 > 0 THEN g1 ELSE IF g2 > 0 THEN g2 ELSE g3
    IN  first(group(match_seq(s, i, PatRecallsForFirm)),
              group(match_seq(s, i, PatListAll)),
              group(match_seq(s, i, PatList)))

\* line 100: re.search, the leftmost match; group is group(1)
firm_list_match(uq) ==
    LET \* at[i] is match_at(uq, i)
        leftmost(at) ==
            IF \E i \in DOMAIN at : at[i] > 0
            THEN [matched |-> TRUE,
                  group |-> until_newline(
                              SubSeq(uq,
                                     at[CHOOSE i \in DOMAIN at :
                                            at[i] > 0 /\ \A j \in 1..(i - 1) : at[j] = 0],
                                     Len(uq)))]
            ELSE [matched |-> FALSE, group |-> ""]
    IN  leftmost([i \in 1..Len(uq) |-> match_at(uq, i)])

\* a firm-listing override that gives way to an earlier rewrite to
\* get_recall_stats
firm_list_override_unless_stats(uq, call) ==
    LET override(m) ==
            IF m.matched /\ call.name # "get_recall_stats"
            THEN Call("search_recalls",
                      [firm |-> stripQuotes(strip(m.group)), limit |-> IntV(50),
                       sort |-> "recall_initiation_date:desc"])
            ELSE call
    IN  override(firm_list_match(uq))

\* lines 99-104: the firm-listing override
firm_list_override(uq, call) ==
    LET override(m) ==
            IF m.matched
            THEN Call("search_recalls",
                      [firm |-> stripQuotes(strip(m.group)), limit |-> IntV(50),
                       sort |-> "recall_initiation_date:desc"])
            ELSE call
    IN  override(firm_list_match(uq))

\* lines 69-104: the call dispatched for the call the model proposed
correct_intent(q, call) ==
    LET correct(uq) ==
            firm_list_override(uq, least_override(uq, firm_total_rewrite(uq, call)))
    IN  correct(lower(q))

(***************************************************************************)
(* The fallback rules of the no-tool-call path (services.py, 123-237).     *)
(* env.s1 and env.s2 are the outcomes of the first and second search a     *)
(* rule makes, env.ff (with env.cf, env.yr) those of the statistics calls. *)
(***************************************************************************)
\* datetime.utcnow(), as a calendar date
Now == [y |-> ThisYear, m |-> 3, d |-> 10]

is_leap(y) == (y % 4 = 0 /\ y % 100 # 0) \/ y % 400 = 0

days_in_month(y, m) ==
    IF m = 2 THEN (IF is_leap(y) THEN 29 ELSE 28)
    ELSE IF m \in {4, 6, 9, 11} THEN 30 ELSE 31

prev_day(date) ==
    IF date.d > 1 THEN [date EXCEPT !.d = date.d - 1]
    ELSE IF date.m > 1
         THEN [y |-> date.y, m |-> date.m - 1, d |-> days_in_month(date.y, date.m - 1)]
         ELSE [y |-> date.y - 1, m |-> 12, d |-> 31]

RECURSIVE minus_days(_, _)
\* date - timedelta(days=n)
minus_days(date, n) == IF n <= 0 THEN date ELSE minus_days(prev_day(date), n - 1)

pad2(n) == IF n < 10 THEN "0" \o str(n) ELSE str(n)

\* date.strftime("%Y%m%d")
strftime(date) == str(date.y) \o pad2(date.m) \o pad2(date.d)

\* a rule's outcome: it raised, or it returned {answer, data}, or (rule 5
\* only) it fell through; calls are the requests it sent and failed the kinds
\* of those that failed
FbRaised(n, calls, failed) ==
    [raised |-> TRUE, fell |-> FALSE, rule |-> n, answer |-> "", data |-> None,
     calls |-> calls, failed |-> failed]

FbReturn(n, answer, data, calls, failed) ==
    [raised |-> FALSE, fell |-> FALSE, rule |-> n, answer |-> answer, data |-> data,
     calls |-> calls, failed |-> failed]

FbFell(n, calls, failed) ==
    [raised |-> FALSE, fell |-> TRUE, rule |-> n, answer |-> "", data |-> None,
     calls |-> calls, failed |-> failed]

\* len(payload.get("recalls", []) or [])
recall_count(payload) == Len(payload.recalls)

\* line 127
\* a "last N" test that leaves the questions about weeks to the time range
is_last_n_unless_weeks(user_q) ==
    Contains(user_q, "last") /\ Contains(user_q, "recall") /\ ~Contains(user_q, "week")

is_last_n(user_q) == Contains(user_q, "last") /\ Contains(user_q, "recall")

\* lines 129-137: the N of "last N"
last_n(user_q) ==
    LET number(tokens) ==
            IF tokens # << >> /\ isdigit(tokens[1]) THEN int(tokens[1]) ELSE 10
    IN  number(split(strip(AfterFirst(user_q, "last"))))

\* lines 127-144: rule 1
rule_last_n(user_q, env) ==
    LET answer(n, h) ==
            IF h.raised THEN FbRaised(1, h.calls, h.failed)
            ELSE FbReturn(1,
                    "Last " \o str(n) \o " recalls (newest first). Found "
                        \o str(recall_count(h.payload)) \o ".",
                    h.payload, h.calls, h.failed)
        search(n) ==
            answer(n, search_recalls_handler(
                        [limit |-> IntV(n), sort |-> "recall_initiation_date:desc"],
                        env.s1))
    IN  search(last_n(user_q))

\* line 146
is_firm_list(user_q) ==
    /\ \/ Contains(user_q, "list")
       \/ Contains(user_q, "recalls for firm")
       \/ Contains(user_q, "list all recalls")
    /\ Contains(user_q, "firm")

\* lines 146-159: rule 2
rule_firm_list(user_q, env) ==
    LET answer(firm_name, h) ==
            IF h.raised THEN FbRaised(2, h.calls, h.failed)
            ELSE FbReturn(2,
                    "Showing " \o str(recall_count(h.payload)) \o " recalls for firm "
                        \o firm_name \o " (newest first).",
                    h.payload, h.calls, h.failed)
        search(firm_name) ==
            answer(firm_name,
                   search_recalls_handler(
                        [firm |-> firm_name, limit |-> IntV(50),
                         sort |-> "recall_initiation_date:desc"], env.s1))
    IN  search(extract_firm(user_q))

\* line 161
is_top_firms(user_q) ==
    \/ Contains(user_q, "which firms")
    \/ Contains(user_q, "top firms")
    \/ Contains(user_q, "most recalls")
    \/ Contains(user_q, "who has the most")

RECURSIVE top_lines(_, _)
\* lines 165-166: the ranked lines, from rank i on
top_lines(top, i) ==
    IF i > Len(top) THEN ""
    ELSE (IF i > 1 THEN "\n" ELSE "") \o str(i) \o ". " \o top[i].firm \o ": "
            \o str(top[i].count) \o top_lines(top, i + 1)

\* lines 161-169: rule 3
rule_top_firms(user_q, env) ==
    LET ranking(top) ==
            IF top # << >> THEN "Top firms by recall count:\n" \o top_lines(top, 1)
            ELSE "No firm recall data available."
        answer(h) ==
            IF h.raised THEN FbRaised(3, h.calls, h.failed)
            ELSE FbReturn(3, ranking(Get(h.payload, "topFirms", << >>)),
                          h.payload, h.calls, h.failed)
    IN  answer(get_recall_stats_handler(
                    [stats |-> << "topFirms" >>, topFirmsLimit |-> IntV(10)], env))

\* line 171
is_time_range(user_q) ==
    (Contains(user_q, "last") \/ Contains(user_q, "past")) /\ Contains(user_q, "recall")

\* lines 173-195: the number and the unit after "last", else after "past"
time_range_parse(user_q) ==
    LET parse(tokens) ==
            IF tokens # << >> /\ isdigit(tokens[1])
            THEN [n |-> int(tokens[1]),
                  unit |-> IF Len(tokens) > 1 THEN tokens[2] ELSE "days"]
            ELSE [n |-> 1, unit |-> IF tokens # << >> THEN tokens[1] ELSE "days"]
    IN  parse(split(strip(AfterFirst(user_q,
                                     IF Contains(user_q, "last") THEN "last" ELSE "past"))))

\* lines 196-206: the number of days of the range
time_range_days(n, unit) ==
    LET days(u) ==
            IF u = "day" THEN n
            ELSE IF u = "week" THEN 7 * n
            ELSE IF u = "month" THEN 30 * n
            ELSE n
    IN  days(rstrip_s(unit))

\* lines 171-216: rule 4
rule_time_range(user_q, env) ==
    LET answer(start_str, end_str, h) ==
            IF h.raised THEN FbRaised(4, h.calls, h.failed)
            ELSE FbReturn(4,
                    "Showing " \o str(recall_count(h.payload)) \o " recalls from "
                        \o start_str \o " to " \o end_str \o ".",
                    h.payload, h.calls, h.failed)
        search(start_str, end_str) ==
            answer(start_str, end_str,
                   search_recalls_handler(
                        [query |-> "recall_initiation_date:[" \o start_str \o " TO "
                                        \o end_str \o "]",
                         limit |-> IntV(50),
                         sort |-> "recall_initiation_date:desc"], env.s1))
        range(p) ==
            search(strftime(minus_days(Now, time_range_days(p.n, p.unit))), strftime(Now))
    IN  range(time_range_parse(user_q))

\* line 218
is_firm_total(user_q) == Contains(user_q, "how many") /\ Contains(user_q, "firm")

\* lines 218-236: rule 5; every exception inside it is swallowed (lines 235-236)
rule_firm_total(user_q, env) ==
    LET \* line 234
        answer(firm_name, r, total, h) ==
            IF h.raised THEN FbFell(5, << r.request >> \o h.calls, h.failed)
            ELSE FbReturn(5, "Total recalls for firm " \o firm_name \o ": " \o str(total),
                          h.payload, << r.request >> \o h.calls, << >>)
        \* lines 231-233
        sample(firm_name, query, r, total) ==
            answer(firm_name, r, total,
                   search_recalls_handler(
                        [query |-> query, limit |-> IntV(Min(10, total)),
                         sort |-> "recall_initiation_date:desc"], env.s2))
        \* lines 228-230
        count(firm_name, query, r) ==
            IF r.raised THEN FbFell(5, << r.request >>, << "search" >>)
            ELSE sample(firm_name, query, r, meta_total(r.data))
        search(firm_name, query) ==
            count(firm_name, query, search_enforcements(query, "", 1, 0, "", env.s1))
        \* lines 221-227
        named(firm_name) ==
            IF firm_name = "" THEN FbFell(5, << >>, << >>)
            ELSE search(firm_name, "recalling_firm:\"" \o firm_name \o "\"")
    IN  named(extract_firm(user_q))

\* the number of the first rule whose predicate holds, 6 when none does
first_rule(user_q) ==
    IF is_last_n(user_q) THEN 1
    ELSE IF is_firm_list(user_q) THEN 2
    ELSE IF is_top_firms(user_q) THEN 3
    ELSE IF is_time_range(user_q) THEN 4
    ELSE IF is_firm_total(user_q) THEN 5
    ELSE 6

\* rules tried with the time range before "last N"
fallback_rules_time_first(q, env) ==
    LET rules(user_q) ==
            IF is_time_range(user_q) THEN rule_time_range(user_q, env)
            ELSE IF is_last_n(user_q) THEN rule_last_n(user_q, env)
            ELSE IF is_firm_list(user_q) THEN rule_firm_list(user_q, env)
            ELSE IF is_top_firms(user_q) THEN rule_top_firms(user_q, env)
            ELSE IF is_firm_total(user_q) THEN rule_firm_total(user_q, env)
            ELSE FbFell(6, << >>, << >>)
    IN  rules(lower(q))

\* lines 126-236: the rules tried on a model turn without tool calls
fallback_rules(q, env) ==
    LET rules(user_q) ==
            IF is_last_n(user_q) THEN rule_last_n(user_q, env)
            ELSE IF is_firm_list(user_q) THEN rule_firm_list(user_q, env)
            ELSE IF is_top_firms(user_q) THEN rule_top_firms(user_q, env)
            ELSE IF is_time_range(user_q) THEN rule_time_range(user_q, env)
            ELSE IF is_firm_total(user_q) THEN rule_firm_total(user_q, env)
            ELSE FbFell(6, << >>, << >>)
    IN  rules(lower(q))

\* a return that prefers the model's text, when it is not empty, to the
\* outcome of the rules
final_return_text_first(f, final_text, last_payload) ==
    IF f.fell \/ final_text # ""
    THEN FbReturn(6, final_text, last_payload, << >>, << >>)
    ELSE f

\* line 237: the return that is reached when no rule has returned or raised
final_return(f, final_text, last_payload) ==
    IF f.fell THEN FbReturn(6, final_text, last_payload, f.calls, f.failed) ELSE f

(***************************************************************************)
(* The session: run_conversation_with_gemini (services.py, lines 15-239).  *)
(***************************************************************************)
\* a round budget that is one round too long
max_rounds_plus_one == 5 + 1

max_rounds == 5

\* the questions asked
Questions ==
    { "last 5 recalls",
      "last 100 recalls",
      "last 0 recalls",
      "last recalls",
      "recalls in the last 2 weeks",
      "recalls in the past 2 weeks",
      "how many recalls for firm Acme class 1",
      "classification 2 how many for firm Acme",
      "how many for firm acme",
      "how many firm",
      "which firm has the least recalls",
      "fewest recalls for firm acme",
      "classification class ii fewest recalls",
      "list recalls for firm acme",
      "classification 3 list recalls for firm acme",
      "top firms",
      "hello" }

\* the tool calls the model proposes
Proposals ==
    { Call("search_recalls", [limit |-> IntV(5)]),
      Call("get_recall_stats",
           [stats |-> << "total", "byYear" >>,
            startYear |-> IntV(ThisYear), endYear |-> IntV(ThisYear)]),
      Call("lookup_recall", EmptyDict) }

\* the lists of 1..n proposals
RECURSIVE CallLists(_)
CallLists(n) ==
    IF n = 0 THEN { }
    ELSE { << c >> : c \in Proposals }
            \cup CallLists(n - 1)
            \cup { Append(l, c) : l \in CallLists(n - 1), c \in Proposals }

\* a response of the model: the function calls of its first candidate's parts,
\* and its text
Responses ==
    { [function_calls |-> l, text |-> ""] : l \in CallLists(MaxCalls) }
        \cup { [function_calls |-> << >>, text |-> t] : t \in {"", "Here is the answer."} }

\* the responses of the model to a tool's payload while intents of the current
\* turn remain: one with text only, one with a tool-call intent
MidResponses ==
    { [function_calls |-> << >>, text |-> "Here is the answer."],
      [function_calls |-> << Call("lookup_recall", EmptyDict) >>, text |-> ""] }

\* the outcomes of one search request
SearchOutcomes ==
    { HttpFailure } \cup { SearchBody(t, k) : t \in 0..MaxTotal, k \in 0..MaxRes }

Bucket(term, count) == [term |-> term, count |-> count]

\* the outcomes of one facet count request
CountOutcomes ==
    { HttpFailure,
      CountBody(<< >>),
      CountBody(<< Bucket("ACME", MaxTotal), Bucket("", 0), Bucket("BETA", 1) >>) }

\* the years a per-year search can be about
Years == (ThisYear - 9)..ThisYear

\* the remote API's behaviour during one tool call
ToolEnvs ==
    { [s1 |-> s, s2 |-> HttpFailure, cf |-> c, ff |-> c, yr |-> [y \in Years |-> o]] :
        s \in SearchOutcomes, c \in CountOutcomes,
        o \in {HttpFailure, SearchBody(MaxTotal, 0)} }

\* the remote API's behaviour during the fallback rules
FallbackEnvs ==
    { [s1 |-> s, s2 |-> t, cf |-> HttpFailure, ff |-> c,
       yr |-> [y \in Years |-> HttpFailure]] :
        s \in SearchOutcomes, t \in SearchOutcomes, c \in CountOutcomes }

\* the handlers' names
KnownTool(name) == name \in {"search_recalls", "get_recall_stats"}

\* a dispatch that turns a handler's exception into an error payload
call_tool_caught(call, env) ==
    LET caught(h) ==
            IF h.raised THEN Returned([error |-> "Tool failed"], h.calls, h.failed) ELSE h
    IN  caught(IF call.name = "search_recalls"
               THEN search_recalls_handler(call.args, env.s1)
               ELSE IF call.name = "get_recall_stats"
               THEN get_recall_stats_handler(call.args, env)
               ELSE Returned([error |-> "Unknown tool: " \o call.name], << >>, << >>))

\* a dispatch that raises on an unknown tool name
call_tool_strict(call, env) ==
    IF call.name = "search_recalls" THEN search_recalls_handler(call.args, env.s1)
    ELSE IF call.name = "get_recall_stats" THEN get_recall_stats_handler(call.args, env)
    ELSE Raised(<< >>, << >>)

\* lines 52-58
call_tool(call, env) ==
    IF call.name = "search_recalls" THEN search_recalls_handler(call.args, env.s1)
    ELSE IF call.name = "get_recall_stats" THEN get_recall_stats_handler(call.args, env)
    ELSE Returned([error |-> "Unknown tool: " \o call.name], << >>, << >>)

Apology == "Sorry, I could not complete the request."

(***************************************************************************)
(* Tables of the operators above over the questions, proposals and remote  *)
(* behaviours of the model, so that each is evaluated once.                *)
(***************************************************************************)
\* correct_intent, per question and proposal
Corrected == [q \in Questions |-> [c \in Proposals |-> correct_intent(q, c)]]

\* the outcomes call_tool can have, per question and proposal
ToolOutcomes ==
    [q \in Questions |->
        [c \in Proposals |-> { call_tool(Corrected[q][c], env) : env \in ToolEnvs }]]

\* the outcomes the fallback rules can have, per question
FallbackOutcomes ==
    [q \in Questions |-> { fallback_rules(q, env) : env \in FallbackEnvs }]


(***************************************************************************)
(* The session: run_conversation_with_gemini (src/ask/services.py 12-239). *)
(***************************************************************************)
VARIABLES
    question,           \* the user's question
    pc,                 \* where the session is
    round,              \* iterations of the round loop entered so far
    response,           \* the model's latest response
    function_calls,     \* the intents of the current turn not yet handled
    last_tool_payload,  \* line 49
    sent,               \* the latest message sent to the model
    dispatched,         \* the latest call passed to call_tool, and its outcome
    requests,           \* the remote requests of the latest dispatch or fallback
    failures,           \* the kinds of remote request that have failed
    rule,               \* the fallback rule that produced the return, 0 if none
    result,             \* what the session returned
    h_args,             \* the arguments of a tool handler called on its own
    h_env,              \* the remote API's behaviour during that call
    h_out,              \* the handler's outcome
    model_calls,        \* the calls of chat.send_message made so far
    tool_calls,         \* the calls of call_tool made so far
    settings,           \* the application's settings (app/config.py)
    http                \* the response of the /ask route

svars ==
    << question, pc, round, response, function_calls, last_tool_payload, sent,
       dispatched, requests, failures, rule, result, model_calls, tool_calls >>

hvars == << h_args, h_env, h_out >>

vars == << svars, hvars, settings, http >>

\* no handler is called on its own
NoHandler == h_args = None /\ h_env = None /\ h_out = None

\* the state at line 60, before the question is sent
Init ==
    /\ question \in Questions
    /\ pc = "start"
    /\ round = 0
    /\ response = None
    /\ function_calls = << >>
    /\ last_tool_payload = None
    /\ sent = None
    /\ dispatched = None
    /\ requests = << >>
    /\ failures = { }
    /\ rule = 0
    /\ model_calls = 0
    /\ tool_calls = 0
    /\ result = None
    /\ NoHandler
    /\ settings = [gemini_api_key |-> "key"]
    /\ http = None

\* line 61: the question is sent; the model answers or the call fails
SendQuestion ==
    /\ pc = "start"
    /\ sent' = [text |-> question]
    /\ \/ \E r \in Responses : response' = r /\ pc' = "inspect"
       \/ response' = response /\ pc' = "model_error"
    /\ model_calls' = model_calls + 1
    /\ UNCHANGED << tool_calls,
                    question, round, function_calls, last_tool_payload, dispatched,
                    requests, failures, rule, result, hvars,
                    settings, http >>

\* lines 62-68: a round whose turn has tool-call intents begins
BeginRound ==
    /\ pc = "inspect"
    /\ round < max_rounds
    /\ response.function_calls # << >>
    /\ round' = round + 1
    /\ function_calls' = response.function_calls
    /\ pc' = "call_tool"
    /\ UNCHANGED << model_calls, tool_calls,
                    question, response, last_tool_payload, sent, dispatched, requests,
                    failures, rule, result, hvars,
                    settings, http >>

\* the kinds of failure a dispatch adds: a per-year search's, or another's
failure_kinds(failed) ==
    { IF failed[i] = "year" THEN "year" ELSE "remote" : i \in 1..Len(failed) }

\* a loop that dispatches the turn's intents from the last one
CallTool_from_last ==
    /\ pc = "call_tool"
    /\ LET fc == function_calls[Len(function_calls)]
           call == Corrected[question][fc]
       IN  \E h \in ToolOutcomes[question][fc] :
            /\ dispatched' = [round |-> round, proposed |-> fc, call |-> call,
                              raised |-> h.raised, payload |-> h.payload]
            /\ requests' = h.calls
            /\ failures' = failures \cup failure_kinds(h.failed)
            /\ IF h.raised
               THEN pc' = "tool_error" /\ last_tool_payload' = last_tool_payload
               ELSE pc' = "send" /\ last_tool_payload' = h.payload
    /\ tool_calls' = tool_calls + 1
    /\ UNCHANGED << model_calls,
                    question, round, response, function_calls, sent, rule, result,
                    hvars,
                    settings, http >>

\* lines 69-107: the next intent is corrected and dispatched
CallTool ==
    /\ pc = "call_tool"
    /\ LET fc == Head(function_calls)
           call == Corrected[question][fc]
       IN  \E h \in ToolOutcomes[question][fc] :
            /\ dispatched' = [round |-> round, proposed |-> fc, call |-> call,
                              raised |-> h.raised, payload |-> h.payload]
            /\ requests' = h.calls
            /\ failures' = failures \cup failure_kinds(h.failed)
            /\ IF h.raised
               THEN pc' = "tool_error" /\ last_tool_payload' = last_tool_payload
               ELSE pc' = "send" /\ last_tool_payload' = h.payload
    /\ tool_calls' = tool_calls + 1
    /\ UNCHANGED << model_calls,
                    question, round, response, function_calls, sent, rule, result,
                    hvars,
                    settings, http >>

\* lines 109-119: the message that carries a tool's payload back to the model
tool_msg(name, payload) == [name |-> name, response |-> payload]

\* a loop that sends the model the payload of the turn's last intent only
SendToolResult_once_per_turn ==
    /\ pc = "send"
    /\ IF Tail(function_calls) # << >>
       THEN /\ function_calls' = Tail(function_calls)
            /\ pc' = "call_tool"
            /\ UNCHANGED << sent, response, model_calls >>
       ELSE /\ sent' = tool_msg(dispatched.call.name, last_tool_payload)
            /\ model_calls' = model_calls + 1
            /\ \/ \E r \in Responses :
                    /\ response' = r
                    /\ function_calls' = Tail(function_calls)
                    /\ pc' = "inspect"
               \/ /\ pc' = "model_error"
                  /\ UNCHANGED << response, function_calls >>
    /\ UNCHANGED << tool_calls,
                    question, round, last_tool_payload, dispatched, requests,
                    failures, rule, result, hvars,
                    settings, http >>

\* lines 109-120: the payload is sent back to the model, whose response
\* replaces the previous one; the loop over the turn's intents goes on
SendToolResult ==
    /\ pc = "send"
    /\ sent' = tool_msg(dispatched.call.name, last_tool_payload)
    /\ \/ \E r \in (IF Tail(function_calls) # << >> THEN MidResponses ELSE Responses) :
            /\ response' = r
            /\ function_calls' = Tail(function_calls)
            /\ pc' = IF Tail(function_calls) # << >> THEN "call_tool" ELSE "inspect"
       \/ /\ pc' = "model_error"
          /\ UNCHANGED << response, function_calls >>
    /\ model_calls' = model_calls + 1
    /\ UNCHANGED << tool_calls,
                    question, round, last_tool_payload, dispatched, requests,
                    failures, rule, result, hvars,
                    settings, http >>

\* the kinds of failure the fallback adds: rule 5's, or another rule's
fallback_kinds(f) ==
    { IF f.rule >= 5 THEN "rule5" ELSE "remote" : i \in 1..Len(f.failed) }

\* lines 123-237: a turn without tool-call intents ends the session
NoToolCalls ==
    /\ pc = "inspect"
    /\ round < max_rounds
    /\ response.function_calls = << >>
    /\ round' = round + 1
    /\ \E f0 \in FallbackOutcomes[question] :
        LET f == final_return(f0, response.text, last_tool_payload)
        IN  /\ requests' = f.calls
            /\ failures' = failures \cup fallback_kinds(f)
            /\ rule' = f.rule
            /\ IF f.raised
               THEN pc' = "tool_error" /\ result' = result
               ELSE pc' = "done" /\ result' = [answer |-> f.answer, data |-> f.data]
    /\ UNCHANGED << model_calls, tool_calls,
                    question, response, function_calls, last_tool_payload, sent,
                    dispatched, hvars,
                    settings, http >>

\* an exhaustion that tries the fallback rules before it apologises
Exhausted_with_fallback ==
    /\ pc = "inspect"
    /\ round = max_rounds
    /\ \E f0 \in FallbackOutcomes[question] :
        LET f == final_return(f0, Apology, last_tool_payload)
        IN  /\ requests' = f.calls
            /\ failures' = failures \cup fallback_kinds(f)
            /\ rule' = f.rule
            /\ IF f.raised
               THEN pc' = "tool_error" /\ result' = result
               ELSE pc' = "done" /\ result' = [answer |-> f.answer, data |-> f.data]
    /\ UNCHANGED << model_calls, tool_calls,
                    question, round, response, function_calls, last_tool_payload, sent,
                    dispatched, hvars, settings, http >>

\* an exhaustion that returns the text of the model's latest response
Exhausted_with_text ==
    /\ pc = "inspect"
    /\ round = max_rounds
    /\ result' = [answer |-> IF response.function_calls = << >> /\ response.text # ""
                             THEN response.text ELSE Apology,
                  data |-> last_tool_payload]
    /\ pc' = "done"
    /\ UNCHANGED << model_calls, tool_calls,
                    question, round, response, function_calls, last_tool_payload,
                    sent, dispatched, requests, failures, rule, hvars,
                    settings, http >>

\* line 239: the round budget is used up
Exhausted ==
    /\ pc = "inspect"
    /\ round = max_rounds
    /\ result' = [answer |-> Apology, data |-> last_tool_payload]
    /\ pc' = "done"
    /\ UNCHANGED << model_calls, tool_calls,
                    question, round, response, function_calls, last_tool_payload,
                    sent, dispatched, requests, failures, rule, hvars,
                    settings, http >>

Next ==
    \/ SendQuestion
    \/ BeginRound
    \/ CallTool
    \/ SendToolResult
    \/ NoToolCalls
    \/ Exhausted

Spec == Init /\ [][Next]_vars

TypeOK ==
    /\ question \in Questions
    /\ pc \in {"start", "inspect", "call_tool", "send", "done", "model_error", "tool_error"}
    /\ round \in 0..max_rounds
    /\ response = None \/ response \in Responses
    /\ rule \in 0..6
    /\ failures \subseteq {"remote", "year", "rule5"}
    /\ model_calls \in 0..(1 + max_rounds * MaxCalls)
    /\ tool_calls \in 0..(max_rounds * MaxCalls)
    /\ NoHandler

(***************************************************************************)
(* get_recall_stats_handler called on its own (src/ask/tools.py 43-140),   *)
(* on arguments and remote behaviours drawn from the sets below.           *)
(***************************************************************************)
\* the metrics of a statistics request
Metrics ==
    << "total", "byClassification", "topFirms", "bottomFirms", "byYear", "mostYear",
       "leastYear", "firmTotal" >>

RECURSIVE pick(_, _)
\* the metrics whose index is in the set idxs, from the i-th on, in order
pick(idxs, i) ==
    IF i > Len(Metrics) THEN << >>
    ELSE (IF i \in idxs THEN << Metrics[i] >> ELSE << >>) \o pick(idxs, i + 1)

\* the values of "stats": every set of metrics, and lists with a metric twice
StatsLists ==
    { pick(idxs, 1) : idxs \in SUBSET (1..Len(Metrics)) }
        \cup { << "total", "total" >>, << "firmTotal", "firmTotal" >> }

\* the arguments of a statistics request: with or without stats, a firm (a
\* name, a name between blanks, or blanks) and a classification
StatsArgs ==
    LET with_stats == { [stats |-> l] : l \in StatsLists } \cup { EmptyDict }
        with_firm == with_stats
                        \cup { Put(a, "firm", f) : a \in with_stats,
                                                   f \in {"Acme", " Acme ", "  "} }
    IN  with_firm \cup { Put(a, "classification", "Class I") : a \in with_firm }

\* the remote API's behaviour during a statistics request
StatsEnvs ==
    { [s1 |-> s, s2 |-> HttpFailure, cf |-> c, ff |-> f, yr |-> [y \in Years |-> o]] :
        s \in {HttpFailure, SearchBody(MaxTotal, 0)},
        c \in {HttpFailure, CountBody(<< Bucket("Class I", MaxTotal), Bucket("", 1) >>)},
        f \in {HttpFailure, CountBody(<< Bucket("ACME", MaxTotal), Bucket("", 0), Bucket("BETA", 1) >>)},
        o \in {HttpFailure, SearchBody(MaxTotal, 0)} }

\* the handler is about to be called
InitStats ==
    /\ h_args \in StatsArgs
    /\ h_env \in StatsEnvs
    /\ h_out = None
    /\ question = ""
    /\ pc = "handler"
    /\ round = 0
    /\ response = None
    /\ function_calls = << >>
    /\ last_tool_payload = None
    /\ sent = None
    /\ dispatched = None
    /\ requests = << >>
    /\ failures = { }
    /\ rule = 0
    /\ model_calls = 0
    /\ tool_calls = 0
    /\ result = None
    /\ settings = [gemini_api_key |-> "key"]
    /\ http = None

\* the handler runs
CallStats ==
    /\ pc = "handler"
    /\ h_out' = get_recall_stats_handler(h_args, h_env)
    /\ pc' = "returned"
    /\ UNCHANGED << model_calls, tool_calls,
                    question, round, response, function_calls, last_tool_payload,
                    sent, dispatched, requests, failures, rule, result, h_args, h_env,
                    settings, http >>

NextStats == CallStats

SpecStats == InitStats /\ [][NextStats]_vars

(***************************************************************************)
(* get_recall_stats_handler called for the firm rankings (tools.py 86-111) *)
(* on every list of at most MaxBuckets buckets.                            *)
(***************************************************************************)
\* no session is running
NoSession ==
    /\ question = ""
    /\ round = 0
    /\ response = None
    /\ function_calls = << >>
    /\ last_tool_payload = None
    /\ sent = None
    /\ dispatched = None
    /\ requests = << >>
    /\ failures = { }
    /\ rule = 0
    /\ model_calls = 0
    /\ tool_calls = 0
    /\ result = None
    /\ settings = [gemini_api_key |-> "key"]
    /\ http = None

\* the handler is about to be called for topFirms, bottomFirms or both, with
\* or without each limit; the facet count fails or returns the buckets of
\* firms F1, F2, ... with any counts
InitFirms ==
    /\ \E stats \in {<< "topFirms" >>, << "bottomFirms" >>, << "topFirms", "bottomFirms" >>},
          top \in {NoneV, IntV(0 - 1), IntV(0), IntV(1), IntV(2), IntV(11)},
          bottom \in {NoneV, IntV(0 - 1), IntV(0), IntV(1), IntV(2), IntV(11)} :
            h_args = [k \in {"stats"} \cup (IF top = NoneV THEN {} ELSE {"topFirmsLimit"})
                                      \cup (IF bottom = NoneV THEN {} ELSE {"bottomFirmsLimit"})
                        |-> CASE k = "stats" -> stats
                              [] k = "topFirmsLimit" -> top
                              [] OTHER -> bottom]
    /\ \E n \in 0..MaxBuckets, counts \in [1..MaxBuckets -> 0..MaxTotal], ok \in BOOLEAN :
            /\ \A i \in (n + 1)..MaxBuckets : counts[i] = 0
            /\ ok \/ n = 0
            /\ h_env = [s1 |-> HttpFailure, s2 |-> HttpFailure, cf |-> HttpFailure,
                        ff |-> IF ok
                               THEN CountBody([i \in 1..n |-> Bucket("F" \o str(i), counts[i])])
                               ELSE HttpFailure,
                        yr |-> [y \in Years |-> HttpFailure]]
    /\ h_out = None
    /\ pc = "handler"
    /\ NoSession

SpecFirms == InitFirms /\ [][NextStats]_vars

(***************************************************************************)
(* search_recalls_handler (tools.py 8-40) and the client's                 *)
(* search_enforcements (client.py 28-43), each called on its own.          *)
(***************************************************************************)
\* the handler is about to be called with a limit and a skip that are
\* missing, null, integers or text, or the client with an integer limit and
\* skip; the search fails or succeeds
InitSearch ==
    /\ \/ /\ pc = "handler"
          /\ \E limit \in {None, NoneV, StrV("abc"), StrV("7")}
                            \cup {IntV(n) : n \in {0 - 1, 0, 1, 10, 50, 51}},
                skip \in {None, NoneV, StrV("x"), IntV(0 - 3), IntV(0), IntV(2)} :
                h_args = [k \in (IF limit = None THEN {} ELSE {"limit"})
                                    \cup (IF skip = None THEN {} ELSE {"skip"})
                            |-> IF k = "limit" THEN limit ELSE skip]
       \/ /\ pc = "client"
          /\ \E limit \in {0 - 1, 0, 1, 100, 101}, skip \in {0 - 1, 0, 3} :
                h_args = [limit |-> IntV(limit), skip |-> IntV(skip)]
    /\ \E s \in SearchOutcomes :
            h_env = [s1 |-> s, s2 |-> HttpFailure, cf |-> HttpFailure, ff |-> HttpFailure,
                     yr |-> [y \in Years |-> HttpFailure]]
    /\ h_out = None
    /\ NoSession

\* the handler runs
CallSearch ==
    /\ pc = "handler"
    /\ h_out' = search_recalls_handler(h_args, h_env.s1)
    /\ pc' = "returned"
    /\ UNCHANGED << model_calls, tool_calls,
                    question, round, response, function_calls, last_tool_payload,
                    sent, dispatched, requests, failures, rule, result, h_args, h_env,
                    settings, http >>

\* the client's search_enforcements runs
CallClient ==
    /\ pc = "client"
    /\ h_out' = search_enforcements("", "", h_args.limit.v, h_args.skip.v, "", h_env.s1)
    /\ pc' = "requested"
    /\ UNCHANGED << model_calls, tool_calls,
                    question, round, response, function_calls, last_tool_payload,
                    sent, dispatched, requests, failures, rule, result, h_args, h_env,
                    settings, http >>

NextSearch == CallSearch \/ CallClient

SpecSearch == InitSearch /\ [][NextSearch]_vars

(***************************************************************************)
(* get_recall_stats_handler called for the per-year metrics (tools.py      *)
(* 113-138).                                                               *)
(***************************************************************************)
\* the handler is about to be called for byYear, mostYear, leastYear or all
\* three, with startYear and endYear missing, null, text or one of the last
\* MaxSpan years; the search of each of those years fails or reports any
\* total, the searches of the earlier years all fail or all report 1
InitYears ==
    /\ \E stats \in {<< "byYear" >>, << "mostYear" >>, << "leastYear" >>,
                      << "byYear", "mostYear", "leastYear" >>},
          start, end \in {None, NoneV, StrV("2023")}
                            \cup {IntV(y) : y \in (ThisYear - MaxSpan + 1)..ThisYear} :
            h_args = [k \in {"stats"} \cup (IF start = None THEN {} ELSE {"startYear"})
                                      \cup (IF end = None THEN {} ELSE {"endYear"})
                        |-> CASE k = "stats" -> stats
                              [] k = "startYear" -> start
                              [] OTHER -> end]
    /\ \E recent \in [(ThisYear - MaxSpan + 1)..ThisYear ->
                        {HttpFailure} \cup {SearchBody(t, 0) : t \in 0..MaxTotal}],
          earlier \in {HttpFailure, SearchBody(1, 0)} :
            h_env = [s1 |-> HttpFailure, s2 |-> HttpFailure, cf |-> HttpFailure,
                     ff |-> HttpFailure,
                     yr |-> [y \in Years |->
                                IF y \in DOMAIN recent THEN recent[y] ELSE earlier]]
    /\ h_out = None
    /\ pc = "handler"
    /\ NoSession

SpecYears == InitYears /\ [][NextStats]_vars

(***************************************************************************)
(* The /ask route (src/ask/routes.py 12-24) around the session.            *)
(***************************************************************************)
\* a request arrives: its question is empty, blank or a question between
\* blanks, and GEMINI_API_KEY is set or not
InitAsk ==
    /\ question \in {"", "  ", " hello ", "top firms"}
    /\ settings \in {[gemini_api_key |-> k] : k \in {"", "key"}}
    /\ pc = "ask"
    /\ round = 0
    /\ response = None
    /\ function_calls = << >>
    /\ last_tool_payload = None
    /\ sent = None
    /\ dispatched = None
    /\ requests = << >>
    /\ failures = { }
    /\ rule = 0
    /\ model_calls = 0
    /\ tool_calls = 0
    /\ result = None
    /\ NoHandler
    /\ http = None

\* lines 14-21: the question is trimmed and refused when empty; then, inside
\* the try block, the key is looked up: the HTTPException(400) raised when it
\* is missing is an Exception, which line 23 catches and line 24 turns into a
\* 500 whose detail is str() of the caught exception (the status and detail,
\* or nothing, by the version of the framework); else the session starts
Ask ==
    /\ pc = "ask"
    /\ question' = strip(question)
    /\ IF strip(question) = ""
       THEN http' = [status |-> 400, detail |-> "Missing 'question'"] /\ pc' = "responded"
       ELSE IF settings.gemini_api_key = ""
       THEN /\ \E d \in {"400: GEMINI_API_KEY not set", ""} :
                    http' = [status |-> 500, detail |-> d]
            /\ pc' = "responded"
       ELSE http' = http /\ pc' = "start"
    /\ UNCHANGED << model_calls, tool_calls,
                    round, response, function_calls, last_tool_payload, sent,
                    dispatched, requests, failures, rule, result, hvars, settings >>

\* lines 21-24: the session's result is the response; an exception of the
\* session becomes a 500
AskRespond ==
    /\ pc \in {"done", "model_error", "tool_error"}
    /\ http' = IF pc = "done" THEN [status |-> 200, body |-> result]
               ELSE [status |-> 500, detail |-> pc]
    /\ pc' = "responded"
    /\ UNCHANGED << model_calls, tool_calls,
                    question, round, response, function_calls, last_tool_payload,
                    sent, dispatched, requests, failures, rule, result, hvars,
                    settings >>

NextAsk == Ask \/ Next \/ AskRespond

SpecAsk == InitAsk /\ [][NextAsk]_vars

(***************************************************************************)
(* Properties of the session.                                              *)
(***************************************************************************)
\* first_rule, per question
FirstRule == [q \in Questions |-> first_rule(lower(q))]

\* the session has returned from the no-tool-call path
ReturnedByFallback == pc = "done" /\ rule >= 1

\* C1: tool-call intents are dispatched in at most 5 rounds, and a session
\* that dispatched a tool call in the 5th round and returns, returns the
\* generic apology with the payload of the last call dispatched in that round.
C1_RoundBudget ==
    /\ round <= 5
    /\ dispatched # None => dispatched.round \in 1..5
    /\ (pc = "done" /\ dispatched # None /\ dispatched.round = 5) =>
            /\ rule = 0
            /\ result = [answer |-> "Sorry, I could not complete the request.",
                         data |-> dispatched.payload]

\* a session that used up its five rounds and returned a payload
C1_Witness ==
    /\ pc = "done"
    /\ dispatched # None /\ dispatched.round = 5
    /\ result.data # None

\* C2 as stated: on the no-tool-call path a non-empty text of the model is
\* the answer, paired with the last tool payload
C2_TextWins ==
    (ReturnedByFallback /\ response.text # "") =>
        result = [answer |-> response.text, data |-> last_tool_payload]

\* C2: on the no-tool-call path, when none of rules 1-5 matches the question
\* the result is the model's text, empty or not, paired with the last tool
\* payload; when one of rules 1-4 matches, that rule produces the result even
\* if the model's text is not empty.
C2_TextUnlessRule ==
    /\ (ReturnedByFallback /\ FirstRule[question] = 6) =>
            result = [answer |-> response.text, data |-> last_tool_payload]
    /\ (ReturnedByFallback /\ FirstRule[question] \in 1..4) =>
            /\ rule = FirstRule[question]
            /\ result.answer # response.text

\* a rule's answer returned although the model's text is not empty
C2_Witness ==
    /\ ReturnedByFallback
    /\ response.text # ""
    /\ rule = 1
    /\ result.answer # response.text

\* C3 as stated: after a failed remote request other than a per-year search,
\* or a failed model call, the session does not return a result
C3_AllFailuresPropagate ==
    (failures \ {"year"} # { } \/ pc = "model_error") =>
        (pc # "done" /\ result = None)

\* C3: after a failed model call, or a failed remote request other than a
\* per-year search and other than a request of fallback rule 5, the session
\* raises and returns no result.
C3_FailuresPropagate ==
    /\ "remote" \in failures => (pc = "tool_error" /\ result = None)
    /\ pc = "model_error" => result = None

\* a remote request failed in a session that had a payload already
C3_Witness ==
    /\ "remote" \in failures
    /\ last_tool_payload # None
    /\ pc = "tool_error"

\* the last tool payload is that of the latest dispatch, absent before any
C4_LastPayload ==
    /\ dispatched = None => last_tool_payload = None
    /\ (dispatched # None /\ ~dispatched.raised) =>
            (last_tool_payload = dispatched.payload /\ last_tool_payload # None)

\* the turn's intents are queued in order; the head of the queue is corrected
\* and dispatched; its payload is sent before the head is removed and the
\* next one is dispatched; nothing else dispatches
C4_OneAtATime ==
    /\ (pc = "inspect" /\ pc' = "call_tool") =>
            function_calls' = response.function_calls
    /\ pc = "call_tool" =>
            /\ dispatched'.proposed = Head(function_calls)
            /\ dispatched'.call = Corrected[question][Head(function_calls)]
            /\ dispatched'.round = round
            /\ function_calls' = function_calls
            /\ pc' \in {"send", "tool_error"}
    /\ (pc = "send" /\ pc' # "model_error") =>
            /\ sent' = [name |-> dispatched.call.name, response |-> dispatched.payload]
            /\ function_calls' = Tail(function_calls)
            /\ pc' = IF Tail(function_calls) # << >> THEN "call_tool" ELSE "inspect"
    /\ dispatched' # dispatched => pc = "call_tool"

\* C4: each intent of a turn is corrected and dispatched once, one at a time,
\* in the model's order, each payload being sent back before the next
\* dispatch; the last tool payload is that of the latest dispatch, and is
\* absent exactly when nothing has been dispatched.
C4_OrderedDispatch == []C4_LastPayload /\ [][C4_OneAtATime]_vars

\* the second intent of the first turn has been dispatched, after the first
\* one's payload was sent
C4_Witness ==
    /\ pc = "send"
    /\ round = 1
    /\ sent # None /\ "name" \in DOMAIN sent
    /\ dispatched.call.name # sent.name

\* the latest dispatch was of a name that is no tool's
UnknownDispatched == dispatched # None /\ ~KnownTool(dispatched.call.name)

\* the payload of a dispatch to an unknown name
UnknownPayload == [error |-> "Unknown tool: " \o dispatched.call.name]

\* a dispatch to an unknown name does not raise, makes no request and
\* records the error payload
C5_NoRaise ==
    UnknownDispatched =>
        /\ ~dispatched.raised
        /\ dispatched.payload = UnknownPayload
        /\ pc = "send" => (requests = << >> /\ last_tool_payload = UnknownPayload)

\* the error payload is sent back and the loop goes on with the next intent
C5_Continues ==
    (UnknownDispatched /\ pc = "send" /\ pc' # "model_error") =>
        /\ sent' = [name |-> dispatched.call.name, response |-> UnknownPayload]
        /\ failures' = failures
        /\ IF Len(function_calls) > 1
           THEN pc' = "call_tool" /\ function_calls' = Tail(function_calls)
           ELSE pc' = "inspect"

\* C5: a dispatch to a name that is neither search_recalls nor
\* get_recall_stats makes no remote request, yields {error: "Unknown tool:
\* <name>"}, records it as the last tool payload, sends it back to the model
\* and goes on with the turn's next intent without raising.
C5_UnknownTool == []C5_NoRaise /\ [][C5_Continues]_vars

\* after an unknown tool's error payload was sent, the next intent is up
C5_Witness ==
    /\ pc = "call_tool"
    /\ sent = [name |-> "lookup_recall",
               response |-> [error |-> "Unknown tool: lookup_recall"]]
    /\ last_tool_payload = sent.response

\* the no-tool-call path has been taken, and has returned or raised
FallbackTaken == pc \in {"done", "tool_error"} /\ rule >= 1

\* a request for a facet count, as opposed to a search
IsCount(request) == "count" \in DOMAIN request

\* the firm name rule 5 extracts, per question that rule 5 is the first to match
Rule5Firm ==
    [q \in Questions |-> IF FirstRule[q] = 5 THEN extract_firm(lower(q)) ELSE ""]

\* C6 as stated: the first rule whose predicate holds produces the outcome
C6_FirstMatchDecides == FallbackTaken => rule = FirstRule[question]

\* C6: the first rule whose predicate holds produces the outcome and makes
\* the only remote requests, except that rule 5 falls through to rule 6 (the
\* model's text with the last tool payload) when it extracts an empty firm
\* name or when one of its remote requests fails.
C6_FirstMatchOrFallThrough ==
    FallbackTaken =>
        LET m == FirstRule[question]
            falls == m = 5 /\ (Rule5Firm[question] = "" \/ "rule5" \in failures)
        IN  /\ rule = IF falls THEN 6 ELSE m
            /\ m \in {1, 2, 4} => (Len(requests) = 1 /\ ~IsCount(requests[1]))
            /\ m = 3 => (Len(requests) = 1 /\ IsCount(requests[1]))
            /\ m = 5 =>
                    /\ pc = "done"
                    /\ Len(requests) <= 2
                    /\ \A i \in 1..Len(requests) : ~IsCount(requests[i])
                    /\ (~falls) => Len(requests) = 2
                    /\ Rule5Firm[question] = "" => requests = << >>
            /\ m = 6 => requests = << >>
            /\ (pc = "done" /\ rule = 6) =>
                    result = [answer |-> response.text, data |-> last_tool_payload]

\* rule 5 matched, one of its requests failed, and rule 6 returned
C6_Witness ==
    /\ pc = "done"
    /\ FirstRule[question] = 5
    /\ rule = 6
    /\ "rule5" \in failures
    /\ Len(requests) = 2

\* the N of the questions that rule 1 matches
C7_N ==
    [q \in Questions |->
        CASE q = "last 5 recalls" -> 5
          [] q = "last 100 recalls" -> 100
          [] q = "last 0 recalls" -> 0
          [] q = "recalls in the last 2 weeks" -> 2
          [] OTHER -> 10]

\* rule 1's answer for N and the payload returned
C7_Answer(n, data) ==
    "Last " \o str(n) \o " recalls (newest first). Found "
        \o str(Len(data.recalls)) \o "."

\* C7 as stated: rule 1 issues one search with limit = N
C7_LimitIsN ==
    (FallbackTaken /\ FirstRule[question] = 1) =>
        /\ Len(requests) = 1
        /\ requests[1].limit = C7_N[question]
        /\ requests[1].sort = "recall_initiation_date:desc"
        /\ pc = "done" => result.answer = C7_Answer(C7_N[question], result.data)

\* C7: rule 1 issues exactly one search, sorted by
\* recall_initiation_date:desc, with limit = N clamped to 1..50, and answers
\* "Last N recalls (newest first). Found <count>." with the unclamped N and
\* the number of records returned.
C7_LimitIsClampedN ==
    (FallbackTaken /\ FirstRule[question] = 1) =>
        /\ Len(requests) = 1
        /\ ~IsCount(requests[1])
        /\ requests[1].limit = Max(1, Min(C7_N[question], 50))
        /\ requests[1].sort = "recall_initiation_date:desc"
        /\ pc = "done" => result.answer = C7_Answer(C7_N[question], result.data)

\* "last 100 recalls" answered from a search with limit 50
C7_Witness ==
    /\ pc = "done" /\ rule = 1
    /\ question = "last 100 recalls"
    /\ requests[1].limit = 50
    /\ result.answer = "Last 100 recalls (newest first). Found 1."

\* the firm-total call for a firm and a class label
FirmTotalCall(firm, label) ==
    Call("get_recall_stats",
         [stats |-> << "firmTotal" >>, firm |-> firm, classification |-> label])

\* C8: when the model proposes get_recall_stats for a question with "how
\* many", "firm" and a class hint, the call dispatched is get_recall_stats
\* with {stats: [firmTotal], firm: <name>, classification: <class>}; for "how
\* many recalls for firm Acme class 1" that is firm "acme", class "Class I".
C8_FirmTotalWithClass ==
    (dispatched # None /\ dispatched.proposed.name = "get_recall_stats") =>
        /\ question = "how many recalls for firm Acme class 1" =>
                dispatched.call = FirmTotalCall("acme", "Class I")
        /\ question = "classification 2 how many for firm Acme" =>
                dispatched.call = FirmTotalCall("acme", "Class II")

\* whether a question has "least" or "fewest", its class label, and its
\* match of the firm-listing pattern
LeastAsked ==
    [q \in Questions |-> Contains(lower(q), "least") \/ Contains(lower(q), "fewest")]

ClassLabel == [q \in Questions |-> class_label(lower(q))]

FirmListed == [q \in Questions |-> firm_list_match(lower(q))]

\* C9 as stated: every question with "least" or "fewest" is dispatched as
\* get_recall_stats {stats: [bottomFirms], bottomFirmsLimit: 10}
C9_AlwaysBottomFirms ==
    (dispatched # None /\ LeastAsked[question]) =>
        dispatched.call =
            Call("get_recall_stats",
                 [stats |-> << "bottomFirms" >>, bottomFirmsLimit |-> IntV(10)])

\* C9: for a question with "least" or "fewest" and any proposal, the call
\* dispatched is get_recall_stats with {stats: [bottomFirms],
\* bottomFirmsLimit: 10}, plus classification: <label> when a class label
\* is detected in the question; unless the question matches the firm-listing
\* pattern, when it is search_recalls with {firm, limit: 50, sort}.
C9_BottomFirmsUnlessListed ==
    (dispatched # None /\ LeastAsked[question]) =>
        IF FirmListed[question].matched
        THEN /\ dispatched.call.name = "search_recalls"
             /\ DOMAIN dispatched.call.args = {"firm", "limit", "sort"}
             /\ dispatched.call.args.limit = IntV(50)
             /\ dispatched.call.args.sort = "recall_initiation_date:desc"
        ELSE /\ dispatched.call.name = "get_recall_stats"
             /\ dispatched.call.args.stats = << "bottomFirms" >>
             /\ dispatched.call.args.bottomFirmsLimit = IntV(10)
             /\ IF ClassLabel[question] = ""
                THEN DOMAIN dispatched.call.args = {"stats", "bottomFirmsLimit"}
                ELSE /\ DOMAIN dispatched.call.args =
                            {"stats", "bottomFirmsLimit", "classification"}
                     /\ dispatched.call.args.classification = ClassLabel[question]

\* a "fewest" question with a class label, dispatched with the label
\* although the model proposed a search
C9_Witness ==
    /\ dispatched # None
    /\ LeastAsked[question]
    /\ dispatched.proposed.name = "search_recalls"
    /\ dispatched.call.name = "get_recall_stats"
    /\ "classification" \in DOMAIN dispatched.call.args

\* the session has just used up its round budget: five rounds have dispatched
\* tool calls and the loop is about to be left
BudgetSpent == pc = "inspect" /\ round = 5

\* C17 as stated: the apology is returned only when no fallback rule matches
\* the question
C17_ApologyOnlyWithoutRule ==
    (pc = "done" /\ result.answer = "Sorry, I could not complete the request.") =>
        FirstRule[question] = 6

\* C17: when the round budget is used up the fallback rules are not applied,
\* whether or not one matches the question: the session returns the generic
\* apology with the last tool payload and makes no further remote request;
\* the fallback rules are applied only on an inspected turn without tool
\* calls, within the first 5 rounds.
C17_ApologyWithoutFallback ==
    [][ /\ BudgetSpent =>
            /\ pc' = "done"
            /\ result' = [answer |-> "Sorry, I could not complete the request.",
                          data |-> last_tool_payload]
            /\ rule' = 0
            /\ requests' = requests
            /\ failures' = failures
        /\ rule' # rule =>
            /\ pc = "inspect" /\ round < 5
            /\ response.function_calls = << >> ]_vars

\* a "last N recalls" question, which rule 1 matches, answered by the apology
\* after five rounds of tool calls
C17_Witness ==
    /\ pc = "done"
    /\ round = 5
    /\ FirstRule[question] = 1
    /\ rule = 0
    /\ result.answer = "Sorry, I could not complete the request."

\* the class a question with "classification" names: the longest of "class
\* i", "class ii", "class iii", or the digit of "class 1", "class 2", "class
\* 3"; "" when it names none or has no "classification"
NamedClass ==
    [q \in Questions |->
        LET uq == lower(q)
        IN  IF ~Contains(uq, "classification") THEN ""
            ELSE IF Contains(uq, "class iii") \/ Contains(uq, "class 3") THEN "Class III"
            ELSE IF Contains(uq, "class ii") \/ Contains(uq, "class 2") THEN "Class II"
            ELSE IF Contains(uq, "class i") \/ Contains(uq, "class 1") THEN "Class I"
            ELSE ""]

\* C18: the label detected in a question with "classification" is the class
\* it names ("class ii" or "class 2" gives Class II, and so on), so that a
\* classification put into the dispatched arguments is that class; without
\* "classification" in the question no label is detected and none is put.
C18_LabelIsNamedClass ==
    dispatched # None =>
        /\ (NamedClass[question] # "" /\ "classification" \in DOMAIN dispatched.call.args)
                => dispatched.call.args.classification = NamedClass[question]
        /\ ~Contains(lower(question), "classification")
                => "classification" \notin DOMAIN dispatched.call.args

\* whether a question has "how many" and "firm"
HowManyFirm ==
    [q \in Questions |-> Contains(lower(q), "how many") /\ Contains(lower(q), "firm")]

\* the firm-total rewrite or the least/fewest override applies to the latest
\* dispatch
Rewritten ==
    \/ LeastAsked[question]
    \/ dispatched.proposed.name = "get_recall_stats" /\ HowManyFirm[question]

\* C19 as stated: whenever a class label is detected in the question the
\* dispatched arguments hold classification = that label
C19_LabelAlwaysInjected ==
    (dispatched # None /\ ClassLabel[question] # "") =>
        /\ "classification" \in DOMAIN dispatched.call.args
        /\ dispatched.call.args.classification = ClassLabel[question]

\* C19: the dispatched arguments hold classification = the detected label
\* exactly when a label is detected, the firm-total rewrite or the
\* least/fewest override applies and the question does not match the
\* firm-listing pattern; when the pattern matches, or a rewrite applies
\* without a label, they hold no classification, and when no rule applies
\* they are the arguments the model proposed.
C19_LabelInjectedByRewrites ==
    dispatched # None =>
        IF FirmListed[question].matched
        THEN "classification" \notin DOMAIN dispatched.call.args
        ELSE IF Rewritten
        THEN IF ClassLabel[question] # ""
             THEN /\ "classification" \in DOMAIN dispatched.call.args
                  /\ dispatched.call.args.classification = ClassLabel[question]
             ELSE "classification" \notin DOMAIN dispatched.call.args
        ELSE dispatched.call = dispatched.proposed

\* a question with a class label rewritten to the firm total of the class
C19_Witness ==
    /\ dispatched # None
    /\ question = "classification 2 how many for firm Acme"
    /\ dispatched.proposed.name = "get_recall_stats"
    /\ dispatched.call.args.stats = << "firmTotal" >>
    /\ dispatched.call.args.classification = "Class II"

\* the <NAME> of a question with "recalls for firm <NAME>": the rest of the
\* lower-cased question, without the blanks around it; "" without the phrase
ListedName ==
    [q \in Questions |->
        IF Contains(lower(q), "recalls for firm ")
        THEN strip(AfterFirst(lower(q), "recalls for firm "))
        ELSE ""]

\* C20: the firm-listing override is applied last and wins: whenever the
\* question has "recalls for firm <NAME>" the call dispatched is
\* search_recalls with exactly {firm: <NAME>, limit: 50, sort:
\* "recall_initiation_date:desc"}, whatever the model proposed and also when
\* the firm-total rewrite or the least/fewest override applies.
C20_FirmListingWins ==
    (dispatched # None /\ ListedName[question] # "") =>
        dispatched.call =
            [name |-> "search_recalls",
             args |-> [firm |-> ListedName[question], limit |-> IntV(50),
                       sort |-> "recall_initiation_date:desc"]]

\* "fewest recalls for firm acme", for which the model proposed
\* get_recall_stats and the least/fewest override applies, dispatched as the
\* listing of firm "acme"
C20_Witness ==
    /\ dispatched # None
    /\ question = "fewest recalls for firm acme"
    /\ LeastAsked[question]
    /\ dispatched.proposed.name = "get_recall_stats"
    /\ dispatched.call.name = "search_recalls"
    /\ dispatched.call.args.firm = "acme"

(***************************************************************************)
(* Properties of get_recall_stats_handler.                                 *)
(***************************************************************************)
\* the handler has run
StatsReturned == pc = "returned" /\ ~h_out.raised

\* the metric m is in the request's stats
Asked(m) ==
    LET l == Get(h_args, "stats", << >>) IN \E i \in 1..Len(l) : l[i] = m

\* the kinds of request the handler sends
IsClassFacet(request) == IsCount(request) /\ request.count = "classification.exact"

IsFirmFacet(request) == IsCount(request) /\ request.count = "recalling_firm.exact"

IsSearchOf(request, field) ==
    /\ ~IsCount(request)
    /\ "search" \in DOMAIN request
    /\ StartsAt(request.search, field, 1)

IsYearSearch(request) == IsSearchOf(request, "recall_initiation_date:[")

IsFirmSearch(request) == IsSearchOf(request, "recalling_firm:")

\* the number of requests of a kind the handler sent
Sent(Kind(_)) == Cardinality({ i \in 1..Len(h_out.calls) : Kind(h_out.calls[i]) })

\* C10 as stated: on a normal return each kind of request was sent iff its
\* metrics are requested, the firm total search iff firmTotal is requested
\* with a non-empty firm
C10_LazyNonEmptyFirm ==
    StatsReturned =>
        /\ Sent(IsClassFacet) >= 1 <=> (Asked("total") \/ Asked("byClassification"))
        /\ Sent(IsFirmFacet) >= 1 <=> (Asked("topFirms") \/ Asked("bottomFirms"))
        /\ Sent(IsYearSearch) >= 1 <=>
                (Asked("byYear") \/ Asked("mostYear") \/ Asked("leastYear"))
        /\ Sent(IsFirmSearch) >= 1 <=>
                (Asked("firmTotal") /\ Get(h_args, "firm", "") # "")

\* C10: the handler sends the classification facet count only if total or
\* byClassification is requested, the recalling_firm facet count only if
\* topFirms or bottomFirms is, per-year searches only if byYear, mostYear or
\* leastYear is, and the firm total search only if firmTotal is requested
\* with a firm that is not blank; each facet count and the firm total search
\* at most once, and nothing else; on a normal return each "only if" is an
\* "iff"; stats = [total] sends exactly one classification facet count.
C10_Lazy ==
    pc = "returned" =>
        LET class == Asked("total") \/ Asked("byClassification")
            firms == Asked("topFirms") \/ Asked("bottomFirms")
            years == Asked("byYear") \/ Asked("mostYear") \/ Asked("leastYear")
            total == Asked("firmTotal") /\ strip(Get(h_args, "firm", "")) # ""
        IN  /\ Sent(IsClassFacet) <= (IF class THEN 1 ELSE 0)
            /\ Sent(IsFirmFacet) <= (IF firms THEN 1 ELSE 0)
            /\ Sent(IsFirmSearch) <= (IF total THEN 1 ELSE 0)
            /\ Sent(IsYearSearch) > 0 => years
            /\ Len(h_out.calls) = Sent(IsClassFacet) + Sent(IsFirmFacet)
                                    + Sent(IsFirmSearch) + Sent(IsYearSearch)
            /\ ~h_out.raised =>
                    /\ class => Sent(IsClassFacet) = 1
                    /\ firms => Sent(IsFirmFacet) = 1
                    /\ total => Sent(IsFirmSearch) = 1
                    /\ years => Sent(IsYearSearch) >= 1
            /\ Get(h_args, "stats", << >>) = << "total" >> =>
                    h_out.calls = << [count |-> "classification.exact"] >>

\* stats = [total] was answered from one classification facet count
C10_Witness ==
    /\ StatsReturned
    /\ h_args = [stats |-> << "total" >>]
    /\ h_out.calls = << [count |-> "classification.exact"] >>
    /\ h_out.payload = [totalRecalls |-> MaxTotal + 1]

\* firmTotal is the only metric of the request
OnlyFirmTotal ==
    LET l == Get(h_args, "stats", << >>)
    IN  l # << >> /\ \A i \in 1..Len(l) : l[i] = "firmTotal"

\* the firm and the classification of the request, as given
FirmArg == Get(h_args, "firm", "")

ClassArg == Get(h_args, "classification", "")

\* C11 as stated: a request for firmTotal only with a non-empty firm that
\* returns made one call and returned exactly {firmTotal, firm: <firm>}
C11_NonEmptyFirmCounted ==
    (StatsReturned /\ OnlyFirmTotal /\ FirmArg # "") =>
        /\ Len(h_out.calls) = 1
        /\ DOMAIN h_out.payload = {"firmTotal", "firm"}
        /\ h_out.payload.firm = FirmArg

\* C11: when firmTotal is the only requested metric and the firm is not
\* blank, the handler makes exactly one remote call, a search with limit 1
\* and skip 0 of recalling_firm:"<firm>" with the firm trimmed, AND'ed with
\* classification:"<classification>" when one is given; if that search
\* succeeds it returns exactly {firmTotal: N, firm: <trimmed firm>}, N the
\* total of the response metadata, and if it fails the handler fails; when
\* the firm is missing, empty or blank it makes no remote call and returns
\* exactly {firmTotal: 0}.
C11_FirmTotalOnly ==
    (pc = "returned" /\ OnlyFirmTotal) =>
        IF \A i \in 1..Len(FirmArg) : IsSpace(CharAt(FirmArg, i))
        THEN /\ ~h_out.raised
             /\ h_out.calls = << >>
             /\ h_out.payload = [firmTotal |-> 0]
        ELSE /\ \E firm \in {"Acme"} :
                    /\ FirmArg \in {firm, " " \o firm \o " "}
                    /\ h_out.calls =
                         << [limit |-> 1, skip |-> 0,
                             search |-> "recalling_firm:\"" \o firm \o "\""
                                        \o (IF ClassArg # ""
                                            THEN " AND classification:\"" \o ClassArg \o "\""
                                            ELSE "")] >>
                    /\ h_env.s1.ok =>
                         /\ ~h_out.raised
                         /\ h_out.payload =
                                [firmTotal |-> h_env.s1.meta.results.total, firm |-> firm]
             /\ ~h_env.s1.ok => h_out.raised

\* a firm between blanks with a classification: one search, the trimmed firm
C11_Witness ==
    /\ StatsReturned
    /\ h_args = [stats |-> << "firmTotal" >>, firm |-> " Acme ",
                 classification |-> "Class I"]
    /\ Len(h_out.calls) = 1
    /\ h_out.payload = [firmTotal |-> MaxTotal, firm |-> "Acme"]

\* the buckets the recalling_firm facet count returned, as ranking entries
FirmEntries ==
    [i \in 1..Len(h_env.ff.results) |->
        [firm |-> h_env.ff.results[i].term, count |-> h_env.ff.results[i].count]]

\* the limits in force: each given limit (5, and the top limit, when a limit
\* is missing or 0) brought into 1..10
TopLimit ==
    LET given == Get(h_args, "topFirmsLimit", IntV(0)).v
    IN  Max(1, Min(IF given = 0 THEN 5 ELSE given, 10))

BottomLimit ==
    LET given == Get(h_args, "bottomFirmsLimit", IntV(0)).v
    IN  Max(1, Min(IF given = 0 THEN TopLimit ELSE given, 10))

\* C12: for every list of firm buckets, bottomFirms is ascending by count,
\* holds no firm with count 0, and is the first bottomFirmsLimit (as in force)
\* entries of that ordering: distinct buckets with positive count such that
\* no bucket left out has a smaller count; topFirms is the first topFirmsLimit
\* buckets in the order returned.
C12_FirmRankings ==
    (StatsReturned /\ h_env.ff.ok) =>
        /\ Asked("topFirms") =>
                h_out.payload.topFirms
                    = [i \in 1..Min(TopLimit, Len(FirmEntries)) |-> FirmEntries[i]]
        /\ Asked("bottomFirms") =>
                LET b == h_out.payload.bottomFirms
                    pos == { i \in 1..Len(FirmEntries) : FirmEntries[i].count > 0 }
                    in == { i \in pos : \E j \in 1..Len(b) : b[j] = FirmEntries[i] }
                IN  /\ \A j \in 1..Len(b) : b[j].count > 0
                    /\ \A j \in 1..Len(b) : \E i \in pos : b[j] = FirmEntries[i]
                    /\ \A j, k \in 1..Len(b) : j < k => b[j].count <= b[k].count
                    /\ \A j, k \in 1..Len(b) : j < k => b[j] # b[k]
                    /\ Len(b) = Min(BottomLimit, Cardinality(pos))
                    /\ \A i \in pos \ in : \A j \in 1..Len(b) :
                            b[j].count <= FirmEntries[i].count

\* buckets (F1, MaxTotal), (F2, 0), (F3, 1) ranked with bottomFirmsLimit 11:
\* the firm with count 0 is dropped and the others are in ascending order
C12_Witness ==
    /\ StatsReturned
    /\ h_env.ff.ok
    /\ Get(h_args, "bottomFirmsLimit", NoneV) = IntV(11)
    /\ Len(FirmEntries) = 3
    /\ FirmEntries[1].count = MaxTotal /\ FirmEntries[2].count = 0
    /\ FirmEntries[3].count = 1
    /\ Asked("bottomFirms")
    /\ h_out.payload.bottomFirms = << FirmEntries[3], FirmEntries[1] >>

(***************************************************************************)
(* Properties of search_recalls_handler and of the client.                 *)
(***************************************************************************)
\* the limit argument of the handler's call, Missing when there is none
Missing == [missing |-> TRUE]

LimitArg == Get(h_args, "limit", Missing)

\* C13: for every limit argument (integer, text, null or missing) the limit
\* of the one search search_recalls_handler sends is in 1..50: 10 for a
\* missing, null or non-numeric limit, 1 for one below 1, 50 for one above 50,
\* the integer itself otherwise; and every request of the client's
\* search_enforcements carries a limit in 1..100 and a skip >= 0.
C13_LimitBounds ==
    /\ pc = "returned" =>
            \A i \in 1..Len(h_out.calls) :
                /\ h_out.calls[i].limit \in 1..50
                /\ h_out.calls[i].limit =
                        (CASE LimitArg \in {Missing, NoneV, StrV("abc")} -> 10
                           [] LimitArg = StrV("7") -> 7
                           [] LimitArg.v < 1 -> 1
                           [] LimitArg.v > 50 -> 50
                           [] OTHER -> LimitArg.v)
                /\ h_out.calls[i].skip >= 0
    /\ (pc = "returned" /\ Get(h_args, "skip", NoneV) # StrV("x")) => Len(h_out.calls) = 1
    /\ pc = "requested" =>
            /\ h_out.request.limit \in 1..100
            /\ h_out.request.skip >= 0

\* one of the limits 0, 51, "abc" and 10 has been sent as 1, 50, 10 or 10
\* respectively, with a negative skip sent as 0
C13_Witness ==
    /\ pc = "returned"
    /\ Len(h_out.calls) = 1
    /\ h_out.calls[1].skip = 0
    /\ Get(h_args, "skip", NoneV) = IntV(0 - 3)
    /\ \/ LimitArg = IntV(0) /\ h_out.calls[1].limit = 1
       \/ LimitArg = IntV(51) /\ h_out.calls[1].limit = 50
       \/ LimitArg = StrV("abc") /\ h_out.calls[1].limit = 10
       \/ LimitArg = IntV(10) /\ h_out.calls[1].limit = 10

(***************************************************************************)
(* Properties of the per-year metrics.                                     *)
(***************************************************************************)
\* the decimal text of the years
YearNames ==
    << "2015", "2016", "2017", "2018", "2019", "2020", "2021", "2022", "2023", "2024" >>

YearName(y) == YearNames[y - 2014]

\* startYear and endYear are both integers, the first not after the second
RangeGiven ==
    /\ "startYear" \in DOMAIN h_args /\ h_args.startYear.t = "int"
    /\ "endYear" \in DOMAIN h_args /\ h_args.endYear.t = "int"
    /\ h_args.startYear.v <= h_args.endYear.v

\* the years that are to be queried
FirstYear == IF RangeGiven THEN h_args.startYear.v ELSE 2015

LastYear == IF RangeGiven THEN h_args.endYear.v ELSE 2024

\* C14: when byYear, mostYear or leastYear is requested, the years queried
\* are startYear..endYear when both are integers with startYear <= endYear
\* and the ten years 2015..2024 (thisYear-9..thisYear) otherwise; exactly one
\* search with limit 1 is sent per year, in ascending order of the years, and
\* recallsByYear, when byYear is requested, has exactly one entry per year.
C14_YearRange ==
    pc = "returned" =>
        /\ h_out.calls =
                [i \in 1..(LastYear - FirstYear + 1) |->
                    [limit |-> 1, skip |-> 0,
                     search |-> "recall_initiation_date:[" \o YearName(FirstYear + i - 1)
                                    \o "0101 TO " \o YearName(FirstYear + i - 1)
                                    \o "1231]"]]
        /\ Asked("byYear") =>
                DOMAIN h_out.payload.recallsByYear
                    = { YearName(y) : y \in FirstYear..LastYear }

\* byYear without startYear and endYear has queried 2015..2024, ten years
C14_Witness ==
    /\ pc = "returned"
    /\ h_args = [stats |-> << "byYear" >>]
    /\ Len(h_out.calls) = 10
    /\ DOMAIN h_out.payload.recallsByYear = { YearNames[i] : i \in 1..10 }

\* C15: whichever per-year searches fail, get_recall_stats_handler returns
\* normally, has queried every year of the range, and records 0 for each year
\* whose search failed and, for every other year, the total its search
\* reported.
C15_YearFailuresAbsorbed ==
    pc = "returned" =>
        /\ ~h_out.raised
        /\ Len(h_out.calls) = LastYear - FirstYear + 1
        /\ Asked("byYear") =>
                \A y \in FirstYear..LastYear :
                    h_out.payload.recallsByYear[YearName(y)]
                        = IF h_env.yr[y].ok THEN h_env.yr[y].meta.results.total ELSE 0

\* the search of 2023 failed, those of 2022 and 2024 reported MaxTotal: all
\* three years were queried and the handler returned 2023 with 0
C15_Witness ==
    /\ StatsReturned
    /\ Get(h_args, "startYear", NoneV) = IntV(2022)
    /\ Get(h_args, "endYear", NoneV) = IntV(2024)
    /\ ~h_env.yr[2023].ok
    /\ Len(h_out.calls) = 3
    /\ Asked("byYear")
    /\ h_out.payload.recallsByYear
            = [k \in {"2022", "2023", "2024"} |-> IF k = "2023" THEN 0 ELSE MaxTotal]

(***************************************************************************)
(* Properties of the /ask route.                                           *)
(***************************************************************************)
\* the request was refused for its empty question or for the missing key
RefusedEmpty == pc = "responded" /\ question = ""

RefusedNoKey == pc = "responded" /\ question # "" /\ settings.gemini_api_key = ""

\* C16: an empty (after trimming) question and a missing API key are each
\* reported with an outcome distinct from that of an in-flight failure (status
\* 500), before any model or remote call is made.
C16_ConfigErrorsDistinct ==
    (RefusedEmpty \/ RefusedNoKey) =>
        /\ http.status # 500
        /\ sent = None
        /\ dispatched = None
        /\ requests = << >>

\* the limits supplied with the request, Missing when there is none
TopArg == Get(h_args, "topFirmsLimit", Missing)

BottomArg == Get(h_args, "bottomFirmsLimit", Missing)

\* n brought into 1..10
Clamp10(n) == IF n < 1 THEN 1 ELSE IF n > 10 THEN 10 ELSE n

\* the number of buckets with a positive count
PositiveFirms == Cardinality({ i \in 1..Len(FirmEntries) : FirmEntries[i].count > 0 })

\* C21 as stated: every integer supplied as a limit is clamped to 1..10, a
\* value below 1 being 1, so that topFirms has at most clamp(topFirmsLimit)
\* entries, and bottomFirms as many as clamp(bottomFirmsLimit) allows,
\* whatever topFirmsLimit is
C21_ClampedIndependently ==
    (StatsReturned /\ h_env.ff.ok) =>
        /\ (Asked("topFirms") /\ TopArg # Missing) =>
                Len(h_out.payload.topFirms) <= Clamp10(TopArg.v)
        /\ (Asked("bottomFirms") /\ BottomArg # Missing) =>
                Len(h_out.payload.bottomFirms)
                    = Min(Clamp10(BottomArg.v), PositiveFirms)

\* C21: an integer other than 0 supplied as topFirmsLimit or bottomFirmsLimit
\* is clamped to 1..10 (a negative one is 1, one above 10 is 10), and then
\* bottomFirms does not depend on topFirmsLimit; a limit that is 0 or missing
\* is replaced by its default, 5 for topFirmsLimit and the top limit in force
\* for bottomFirmsLimit, so that the number of bottomFirms entries then
\* depends on topFirmsLimit.
C21_LimitsInForce ==
    (StatsReturned /\ h_env.ff.ok) =>
        LET top == IF TopArg = Missing \/ TopArg.v = 0 THEN 5 ELSE Clamp10(TopArg.v)
            bottom == IF BottomArg = Missing \/ BottomArg.v = 0 THEN top
                      ELSE Clamp10(BottomArg.v)
        IN  /\ Asked("topFirms") =>
                    Len(h_out.payload.topFirms) = Min(top, Len(FirmEntries))
            /\ Asked("bottomFirms") =>
                    Len(h_out.payload.bottomFirms) = Min(bottom, PositiveFirms)

\* bottomFirmsLimit 0 with topFirmsLimit 1: one entry in bottomFirms although
\* two firms or more have a positive count
C21_Witness ==
    /\ StatsReturned
    /\ h_env.ff.ok
    /\ TopArg = IntV(1)
    /\ BottomArg = IntV(0)
    /\ Asked("bottomFirms")
    /\ PositiveFirms >= 2
    /\ Len(h_out.payload.bottomFirms) = 1

\* the key under which the result carries the metric m
ResultKey(m) ==
    CASE m = "total" -> "totalRecalls"
      [] m = "byClassification" -> "recallsByClassification"
      [] m = "byYear" -> "recallsByYear"
      [] OTHER -> m

\* the keys of the requested metrics
RequestedKeys == { ResultKey(Metrics[i]) : i \in { j \in 1..Len(Metrics) : Asked(Metrics[j]) } }

\* C22 as stated: the result has one key per requested metric, the key firm
\* whenever firmTotal is requested, and no other key
C22_KeysWithFirm ==
    StatsReturned =>
        DOMAIN h_out.payload
            = RequestedKeys \cup (IF Asked("firmTotal") THEN {"firm"} ELSE { })

\* C22: for every requested metric set and every firm argument, the mapping
\* get_recall_stats_handler returns has exactly one key for each requested
\* metric (totalRecalls, recallsByClassification, topFirms, bottomFirms,
\* recallsByYear, mostYear, leastYear, firmTotal), the key firm when
\* firmTotal is requested and the firm is not blank, and no other key: none
\* for a metric that is not requested, and no firm key when the firm is
\* missing, empty or blank.
C22_KeysOfRequested ==
    StatsReturned =>
        DOMAIN h_out.payload
            = RequestedKeys
                \cup (IF Asked("firmTotal") /\ strip(FirmArg) # "" THEN {"firm"} ELSE { })

\* mostYear and firmTotal requested with a blank firm: the result has the two
\* keys, neither the per-year mapping nor a firm
C22_Witness ==
    /\ StatsReturned
    /\ Get(h_args, "stats", << >>) = << "mostYear", "firmTotal" >>
    /\ FirmArg = "  "
    /\ DOMAIN h_out.payload = {"mostYear", "firmTotal"}

\* the count recorded for the year y: the total its search reported, 0 when
\* the search failed
YearCount(y) == IF h_env.yr[y].ok THEN h_env.yr[y].meta.results.total ELSE 0

\* the entry e names a year of the range whose count is extremal in the order
\* Before (strictly) among the years of the range, and the lowest such year
LowestExtremal(e, Before(_, _)) ==
    \E y \in FirstYear..LastYear :
        /\ e = [year |-> YearName(y), count |-> YearCount(y)]
        /\ \A z \in FirstYear..LastYear : ~Before(YearCount(y), YearCount(z))
        /\ \A z \in FirstYear..(y - 1) : Before(YearCount(z), YearCount(y))

Less(a, b) == a < b

Greater(a, b) == a > b

\* C23: mostYear is a year of the range with the maximum count and leastYear
\* one with the minimum count, a year whose search failed counting as 0, and
\* when several years share the extremal count the lowest of them is
\* reported, for mostYear and for leastYear.
C23_LowestYearOnTie ==
    StatsReturned =>
        /\ Asked("mostYear") => LowestExtremal(h_out.payload.mostYear, Less)
        /\ Asked("leastYear") => LowestExtremal(h_out.payload.leastYear, Greater)

\* 2022 failed and 2023 reported 0, 2024 reported MaxTotal: 2022 and 2023
\* share the minimum, leastYear is 2022 with 0 and mostYear 2024
C23_Witness ==
    /\ StatsReturned
    /\ Get(h_args, "startYear", NoneV) = IntV(2022)
    /\ Get(h_args, "endYear", NoneV) = IntV(2024)
    /\ Asked("mostYear") /\ Asked("leastYear")
    /\ ~h_env.yr[2022].ok
    /\ YearCount(2023) = 0 /\ h_env.yr[2023].ok
    /\ YearCount(2024) = MaxTotal
    /\ h_out.payload.leastYear = [year |-> "2022", count |-> 0]
    /\ h_out.payload.mostYear = [year |-> "2024", count |-> MaxTotal]

(***************************************************************************)
(* Properties of the round loop.                                           *)
(***************************************************************************)
\* C24: the model's response to the tool results of round 5 is never
\* inspected: once five rounds have dispatched tool calls, whatever the model
\* answered to the last tool result, final text without tool call included,
\* the session ends with the generic apology and the last tool payload,
\* without another dispatch, fallback rule or remote request.
C24_RoundFiveResponseDiscarded ==
    [][(pc = "inspect" /\ round = 5) =>
            /\ pc' = "done"
            /\ result' = [answer |-> Apology, data |-> dispatched.payload]
            /\ dispatched.round = 5
            /\ UNCHANGED << dispatched, requests, rule, sent, last_tool_payload >>]_vars

\* the model answered the tool result of round 5 with text and no tool call,
\* and the session returned the apology with that round's payload
C24_Witness ==
    /\ pc = "done"
    /\ round = 5
    /\ dispatched.round = 5
    /\ response = [function_calls |-> << >>, text |-> "Here is the answer."]
    /\ result = [answer |-> Apology, data |-> dispatched.payload]

\* the session is over
Ended == pc \in {"done", "model_error", "tool_error"}

\* the tool calls dispatched whose handler returned a payload: all of them,
\* but the last one when its handler raised
ToolResults == IF dispatched # None /\ dispatched.raised THEN tool_calls - 1 ELSE tool_calls

\* the intents of a turn are dispatched one by one in their order, the model
\* is called once with each payload, and its response is inspected, or its
\* text returned, only when no intent of the turn remains
IntentsInTurn ==
    /\ pc = "call_tool" =>
            /\ dispatched'.proposed = Head(function_calls)
            /\ tool_calls' = tool_calls + 1
            /\ model_calls' = model_calls
    /\ pc = "send" =>
            /\ model_calls' = model_calls + 1
            /\ tool_calls' = tool_calls
            /\ pc' # "model_error" =>
                    /\ function_calls' = Tail(function_calls)
                    /\ pc' = IF Tail(function_calls) = << >> THEN "inspect"
                             ELSE "call_tool"
    /\ pc' = "inspect" => function_calls' = << >>
    /\ result' # result => pc = "inspect"

\* C25 as stated: the above, and a session that is over has called the model
\* once more than it has dispatched tool calls
C25_CallsOnePlusDispatched ==
    [][IntentsInTurn /\ (Ended' => model_calls' = 1 + tool_calls')]_vars

\* C25: when a model turn has k > 1 tool-call intents, the model is called
\* once after each tool result, and only the response to the last tool
\* result is inspected in the next round: the tool calls and the text of the
\* responses to the first k-1 results are never dispatched or returned.  A
\* session that is over has called the model once more than the number of
\* tool calls whose handler returned a payload: a handler that raises ends
\* the session without another model call, so the model calls then equal
\* the tool calls dispatched.
C25_ModelCalledPerToolResult ==
    [][IntentsInTurn /\ (Ended' => model_calls' = 1 + ToolResults')]_vars

\* the first turn had two intents: two dispatches in round 1 and three model
\* calls, the last response, without tool call, ending the session in round 2
C25_Witness ==
    /\ pc = "done"
    /\ round = 2
    /\ tool_calls = 2
    /\ model_calls = 3
    /\ dispatched.round = 1

(***************************************************************************)
(* Properties of the order of the fallback rules.                          *)
(***************************************************************************)
\* the questions whose lower-cased text contains the word
Having(word) == { q \in Questions : Contains(lower(q), word) }

HavingLast == Having("last")

HavingPast == Having("past")

HavingRecall == Having("recall")

\* C26: fallback rule 4 (the date-range query) is applied only to questions
\* that contain "past" and "recall" and do not contain "last": every question
\* with "last" and "recall" is taken by rule 1 (last N recalls), whose only
\* request is a search of the N newest recalls, so that such a question never
\* produces a recall_initiation_date range query.
C26_RuleFourOnlyForPast ==
    FallbackTaken =>
        /\ rule = 4 =>
                /\ question \in (HavingPast \cap HavingRecall) \ HavingLast
                /\ \E i \in 1..Len(requests) : IsYearSearch(requests[i])
        /\ question \in HavingLast \cap HavingRecall =>
                /\ rule = 1
                /\ \A i \in 1..Len(requests) : ~IsYearSearch(requests[i])

\* "recalls in the last 2 weeks" was answered by rule 1 with one search of
\* the 2 newest recalls, and no date range
C26_Witness ==
    /\ pc = "done"
    /\ question = "recalls in the last 2 weeks"
    /\ rule = 1
    /\ Len(requests) = 1
    /\ requests[1].limit = 2
    /\ ~IsYearSearch(requests[1])
====
